---- MODULE Spec2Model ----
(***************************************************************************)
(* Model of the solar PV and battery optimiser: the time-series            *)
(* pre-processing of model/inputs/pre_processing.py and the construction   *)
(* of the linear programme in model/linear_optimiser.                      *)
(*                                                                         *)
(* A DataFrame is a record [col, rows]: col is the name of its value       *)
(* column, rows the sequence of its rows [ts, val] in frame order.         *)
(* A timestamp is a record [year, month, day, minute], minute counted from *)
(* midnight.  Values are fixed-point numbers with denominator Unit, so     *)
(* that the mean of up to MaxRows raw values is exact.                     *)
(*                                                                         *)
(* The calendar is compressed: a year keeps only the days of CalendarDays  *)
(* that exist in it, a day keeps only the first DayLength minutes, and     *)
(* consecutive kept days are adjacent.                                     *)
(***************************************************************************)
EXTENDS Integers, Sequences, FiniteSets, TLC

VARIABLES
    data,        \* duplicate resolution: the frame handed to the pre-processor
    column,      \* duplicate resolution: the value column named by the caller
    once,        \* result of _process_duplicate_timestamps(data, column)
    twice,       \* result of _process_duplicate_timestamps on its own output
    demand,      \* result of PreProcessEnergyDemand.pre_process(data)
    irradiance,  \* zero filling: the frame handed to fill_in_zero_values
    filled,      \* result of fill_in_zero_values(irradiance)
    energy_demand_profile, \* alignment: PreProcessSolarIrradiance.energy_demand_profile
    solar,       \* alignment: the raw irradiance frame
    aligned,     \* result of PreProcessSolarIrradiance.pre_process(solar)
    variables,   \* the class attributes of OptimiserVariables
    optimiser,   \* outcome of Optimiser(...): the instance's attributes, or the error
    built,       \* outcome of create_optimisation_problem
    solved,      \* outcome of solve
    request,     \* the arguments of the Optimiser(...) call
    log,         \* the advisories written to the logger
    results,     \* outcome of dump_results
    second,      \* a second Optimiser of the same process: its outcomes
    argv,        \* command line: the options in the order they are given
    parsed,      \* outcome of arg_parser.parse_args()
    run          \* run_model: the stage reached and how it ended

vars == <<data, column, once, twice, demand, irradiance, filled,
          energy_demand_profile, solar, aligned, variables, optimiser, built, solved,
          request, log, results, second, argv, parsed, run>>

dedupVars == <<data, column, once, twice, demand>>
fillVars == <<irradiance, filled>>
alignVars == <<energy_demand_profile, solar, aligned>>
optVars == <<variables, optimiser, built, solved, request, log, results>>
cliVars == <<argv, parsed>>
restVars == <<second, argv, parsed, run>>

-----------------------------------------------------------------------------
(* Bounds                                                                  *)

\* longest raw series handed to duplicate resolution and zero filling
MaxRows == 3
\* raw values are 0..MaxVal
MaxVal == 1
\* longest raw irradiance series handed to the alignment
MaxSolarRows == 2
\* longest demand profile handed to the alignment
MaxDemandRows == 2
\* most time slices of an optimisation problem
MaxSlices == 2
\* most time slices of a problem handed to the solver
MaxScenarioSlices == 4
\* the solver looks for solutions with every variable in 0..MaxAmount
MaxAmount == 2

-----------------------------------------------------------------------------
(* Constants of model/constants.py                                         *)

SOLAR_IRRADIANCE == "solar_irradiance (W/m)"
DATE_TIME == "date_time"
ENERGY_DEMAND == "consumption_kwh"
MINIMISE_BATTERY_CAP == "minimise_battery_cap"
MINIMISE_BATTERY_AND_SOLAR_COST == "minimise_battery_and_solar_cost"

\* a Python None, an unset result
NoValue == [none |-> TRUE]

-----------------------------------------------------------------------------
(* Fixed-point values                                                      *)

RECURSIVE GCD(_, _)
GCD(a, b) == IF b = 0 THEN a ELSE GCD(b, a % b)

RECURSIVE LCMUpTo(_)
LCMUpTo(n) == IF n <= 1 THEN 1 ELSE (n * LCMUpTo(n - 1)) \div GCD(n, LCMUpTo(n - 1))

\* denominator of the fixed-point values
Unit == LCMUpTo(MaxRows)

RawValues == {v * Unit : v \in 0..MaxVal}

RECURSIVE SumSeq(_)
SumSeq(s) == IF s = <<>> THEN 0 ELSE s[1] + SumSeq(Tail(s))

-----------------------------------------------------------------------------
(* Timestamps and the compressed calendar                                  *)

IsLeap(y) == (y % 4 = 0) /\ ((y % 100 # 0) \/ (y % 400 = 0))

DaysInMonth(y, m) ==
    IF m = 2 THEN (IF IsLeap(y) THEN 29 ELSE 28)
    ELSE IF m \in {4, 6, 9, 11} THEN 30 ELSE 31

\* the dates Python's datetime accepts
ValidDate(y, m, d) == m \in 1..12 /\ d \in 1..DaysInMonth(y, m)

\* the days a year keeps in the compressed calendar
CalendarDays == << [month |-> 1, day |-> 1], [month |-> 2, day |-> 29], [month |-> 12, day |-> 31] >>

\* the quarter hours a day keeps
TimesOfDay == {0, 15, 30, 45}

DayLength == 15 * Cardinality(TimesOfDay)

DaysOf(y) == SelectSeq(CalendarDays, LAMBDA md : ValidDate(y, md.month, md.day))

TS(y, m, d, t) == [year |-> y, month |-> m, day |-> d, minute |-> t]

DateOf(ts) == [year |-> ts.year, month |-> ts.month, day |-> ts.day]

\* chronological order of timestamps
Key(ts) == ((ts.year * 13 + ts.month) * 32 + ts.day) * DayLength + ts.minute

DayIndex(date) ==
    CHOOSE i \in 1..Len(DaysOf(date.year)) :
        /\ DaysOf(date.year)[i].month = date.month
        /\ DaysOf(date.year)[i].day = date.day

\* date + Timedelta(days=1)
NextDate(date) ==
    LET days == DaysOf(date.year)
        i == DayIndex(date)
    IN  IF i < Len(days)
        THEN [year |-> date.year, month |-> days[i + 1].month, day |-> days[i + 1].day]
        ELSE [year |-> date.year + 1, month |-> DaysOf(date.year + 1)[1].month,
              day |-> DaysOf(date.year + 1)[1].day]

\* date - Timedelta(days=1)
PrevDate(date) ==
    LET days == DaysOf(date.year)
        i == DayIndex(date)
        prev == DaysOf(date.year - 1)
    IN  IF i > 1
        THEN [year |-> date.year, month |-> days[i - 1].month, day |-> days[i - 1].day]
        ELSE [year |-> date.year - 1, month |-> prev[Len(prev)].month,
              day |-> prev[Len(prev)].day]

\* ts + Timedelta(minutes=30)
PlusHalfHour(ts) ==
    IF ts.minute + 30 < DayLength
    THEN [ts EXCEPT !.minute = @ + 30]
    ELSE LET next == NextDate(DateOf(ts))
         IN  TS(next.year, next.month, next.day, ts.minute + 30 - DayLength)

-----------------------------------------------------------------------------
(* Frames                                                                  *)

Row(ts, val) == [ts |-> ts, val |-> val]

Frame(col, rows) == [col |-> col, rows |-> rows]

\* a return value, or the exception that left the call
Ok(value) == [raised |-> "none", value |-> value]

Raise(exc) == [raised |-> exc, value |-> NoValue]

TimestampsOf(rows) == [i \in 1..Len(rows) |-> rows[i].ts]

ValuesOf(rows) == [i \in 1..Len(rows) |-> rows[i].val]

\* Series.unique(): the distinct entries in order of first appearance
RECURSIVE Unique(_)
Unique(s) ==
    IF s = <<>> THEN <<>>
    ELSE LET front == Unique(SubSeq(s, 1, Len(s) - 1))
             last == s[Len(s)]
         IN  IF \E i \in 1..Len(front) : front[i] = last THEN front ELSE Append(front, last)

\* DataFrame.drop_duplicates(): of identical rows the first is kept
DropDuplicates(rows) == Unique(rows)

\* DataFrame.sort_values(by=DATE_TIME): the rows by ascending timestamp (rows of
\* equal timestamp keep their order)
RECURSIVE SortValues(_)
SortValues(rows) ==
    IF rows = <<>> THEN <<>>
    ELSE LET front == SortValues(SubSeq(rows, 1, Len(rows) - 1))
             last == rows[Len(rows)]
             before == SelectSeq(front, LAMBDA r : Key(r.ts) <= Key(last.ts))
             after == SelectSeq(front, LAMBDA r : Key(r.ts) > Key(last.ts))
         IN  before \o <<last>> \o after

-----------------------------------------------------------------------------
(* PreProcessorBase._process_duplicate_timestamps                          *)

\* data[data[DATE_TIME].duplicated(keep=False)]
DuplicateRows(rows) ==
    SelectSeq(rows, LAMBDA r : Cardinality({i \in 1..Len(rows) : rows[i].ts = r.ts}) > 1)

NonDuplicatedKeepAll(rows, unique_timestamps) == rows

\* data[~data[DATE_TIME].isin(unique_timestamps)]
NonDuplicated(rows, unique_timestamps) ==
    SelectSeq(rows, LAMBDA r : ~(\E i \in 1..Len(unique_timestamps) : unique_timestamps[i] = r.ts))

MeanFirstValue(values) == values[1]

\* Series.mean()
Mean(values) == SumSeq(values) \div Len(values)

\* one pass of the loop over unique_timestamps: the rows that replace the
\* rows of one duplicated timestamp
ResolveTimestamp(duplicate_rows, timestamp) ==
    LET rows == SelectSeq(duplicate_rows, LAMBDA r : r.ts = timestamp)
        unique_values == Unique(ValuesOf(rows))
    IN  IF Len(rows) = 1 THEN rows
        ELSE IF Len(unique_values) = 1 THEN DropDuplicates(rows)
        ELSE DropDuplicates([i \in 1..Len(rows) |-> Row(rows[i].ts, Mean(ValuesOf(rows)))])

RECURSIVE ResolveAll(_, _)
ResolveAll(duplicate_rows, unique_timestamps) ==
    IF unique_timestamps = <<>> THEN <<>>
    ELSE ResolveTimestamp(duplicate_rows, unique_timestamps[1])
         \o ResolveAll(duplicate_rows, Tail(unique_timestamps))

\* rows[column] of a frame that has no such column raises KeyError
ProcessDuplicateTimestamps(frame, col) ==
    LET duplicate_rows == DuplicateRows(frame.rows)
        unique_timestamps == Unique(TimestampsOf(duplicate_rows))
        rest == NonDuplicated(frame.rows, unique_timestamps)
    IN  IF duplicate_rows = <<>> THEN Ok(frame)
        ELSE IF col # frame.col THEN Raise("KeyError")
        ELSE Ok(Frame(frame.col,
                      SortValues(ResolveAll(duplicate_rows, unique_timestamps) \o rest)))

\* PreProcessorBase.pre_process: the rows hold the parsed timestamps
BasePreProcess(frame, col) == ProcessDuplicateTimestamps(frame, col)

-----------------------------------------------------------------------------
(* PreProcessEnergyDemand.pre_process                                      *)

IsHourly(ts) == ts.minute % 60 = 0

\* data[DATE_TIME].dt.minute.isin([0, 30])
IsHalfHourly(ts) == ts.minute % 60 \in {0, 30}

PreProcessEnergyDemand(frame) ==
    LET base == BasePreProcess(frame, ENERGY_DEMAND)
    IN  IF base.raised # "none" THEN base
        ELSE Ok(Frame(base.value.col, SelectSeq(base.value.rows, LAMBDA r : IsHalfHourly(r.ts))))

-----------------------------------------------------------------------------
(* Specification of duplicate resolution and demand pre-processing         *)

\* the raw series: up to MaxRows rows on the quarter hours of one day, in any order
SeqsUpTo(S, n) == UNION {[1..k -> S] : k \in 0..n}

RawDay == [year |-> 2020, month |-> 1, day |-> 1]

RawRows ==
    {Row(TS(RawDay.year, RawDay.month, RawDay.day, t), v) : t \in TimesOfDay, v \in RawValues}

IdleFill == irradiance = NoValue /\ filled = NoValue
IdleAlign == energy_demand_profile = NoValue /\ solar = NoValue /\ aligned = NoValue
IdleOpt ==
    /\ variables = NoValue /\ optimiser = NoValue /\ built = NoValue /\ solved = NoValue
    /\ request = NoValue /\ log = NoValue /\ results = NoValue
IdleRest == second = NoValue /\ argv = NoValue /\ parsed = NoValue /\ run = NoValue
IdleDedup == data = NoValue /\ column = NoValue /\ once = NoValue /\ twice = NoValue /\ demand = NoValue

Init ==
    /\ \E rows \in SeqsUpTo(RawRows, MaxRows), c \in {ENERGY_DEMAND, SOLAR_IRRADIANCE} :
          data = Frame(c, rows)
    /\ column \in {ENERGY_DEMAND, SOLAR_IRRADIANCE}
    /\ once = NoValue /\ twice = NoValue /\ demand = NoValue
    /\ IdleFill /\ IdleAlign /\ IdleOpt /\ IdleRest

\* _process_duplicate_timestamps(data, column)
ResolveDuplicates ==
    /\ once = NoValue
    /\ once' = ProcessDuplicateTimestamps(data, column)
    /\ UNCHANGED <<data, column, twice, demand, fillVars, alignVars, optVars, restVars>>

\* _process_duplicate_timestamps applied to its own output
ResolveAgain ==
    /\ once # NoValue /\ once.raised = "none" /\ twice = NoValue
    /\ twice' = ProcessDuplicateTimestamps(once.value, column)
    /\ UNCHANGED <<data, column, once, demand, fillVars, alignVars, optVars, restVars>>

\* PreProcessEnergyDemand().pre_process(data)
PreProcessDemand ==
    /\ demand = NoValue
    /\ demand' = PreProcessEnergyDemand(data)
    /\ UNCHANGED <<data, column, once, twice, fillVars, alignVars, optVars, restVars>>

Next == ResolveDuplicates \/ ResolveAgain \/ PreProcessDemand

Spec == Init /\ [][Next]_vars

-----------------------------------------------------------------------------
(* Properties of duplicate resolution and demand pre-processing            *)

Resolved == once # NoValue /\ once.raised = "none"

TimestampSet(rows) == {rows[i].ts : i \in 1..Len(rows)}

ValuesAt(rows, t) == ValuesOf(SelectSeq(rows, LAMBDA r : r.ts = t))

HasDuplicates(rows) == DuplicateRows(rows) # <<>>

\* C4: after duplicate resolution every distinct timestamp of the input has
\* exactly one row; it carries the common value of its k rows when they agree,
\* their arithmetic mean when they differ, and an unduplicated row's own value.
C4_OneRowPerTimestamp ==
    Resolved =>
        /\ TimestampSet(once.value.rows) = TimestampSet(data.rows)
        /\ \A t \in TimestampSet(data.rows) :
              LET values == ValuesAt(data.rows, t)
                  out == ValuesAt(once.value.rows, t)
              IN  /\ Len(out) = 1
                  /\ out[1] * Len(values) = SumSeq(values)
                  /\ (\A i \in 1..Len(values) : values[i] = values[1]) => out[1] = values[1]

\* C4 witness: a resolved series with a timestamp whose rows differ in value
\* next to an unduplicated row
C4_Witness ==
    /\ Resolved
    /\ \E t \in TimestampSet(data.rows) :
          /\ Len(ValuesAt(data.rows, t)) > 1
          /\ Len(Unique(ValuesAt(data.rows, t))) > 1
    /\ \E t \in TimestampSet(data.rows) : Len(ValuesAt(data.rows, t)) = 1

\* C5: duplicate resolution is idempotent: applied to its own output it
\* returns the same rows in the same order.
C5_Idempotent ==
    twice # NoValue => (twice.raised = "none" /\ twice.value = once.value)

\* C5 witness: resolution was applied twice to a series with differing duplicates
C5_Witness ==
    /\ twice # NoValue
    /\ \E t \in TimestampSet(data.rows) : Len(Unique(ValuesAt(data.rows, t))) > 1

\* C6: the output of duplicate resolution is in ascending timestamp order
\* with strictly increasing timestamps, whatever the input order and with or
\* without duplicates.
C6_OutputAscending ==
    Resolved =>
        \A i \in 1..Len(once.value.rows) - 1 :
            Key(once.value.rows[i].ts) < Key(once.value.rows[i + 1].ts)

\* C7: duplicate resolution fails, and returns no series, whenever the named
\* value column is absent, with or without duplicate timestamps.
C7_AbsentColumnFails ==
    (once # NoValue /\ column # data.col) => (once.raised # "none" /\ once.value = NoValue)

\* C8: demand pre-processing keeps exactly the de-duplicated rows on minute 0
\* or 30: every kept row is on the half hour, as many rows are dropped as the
\* de-duplicated input has rows off the half hour, and the kept rows are rows
\* of the de-duplicated input in their relative order.
C8_HalfHourFilter ==
    (demand # NoValue /\ demand.raised = "none") =>
        LET dedup == ProcessDuplicateTimestamps(data, ENERGY_DEMAND).value.rows
            out == demand.value.rows
            pos(r) == CHOOSE i \in 1..Len(dedup) : dedup[i] = r
        IN  /\ \A i \in 1..Len(out) : out[i].ts.minute % 60 \in {0, 30}
            /\ Len(dedup) - Len(out) =
                  Cardinality({i \in 1..Len(dedup) : dedup[i].ts.minute % 60 \notin {0, 30}})
            /\ \A i \in 1..Len(out) : \E j \in 1..Len(dedup) : dedup[j] = out[i]
            /\ \A i, j \in 1..Len(out) : i < j => pos(out[i]) < pos(out[j])

\* C8 witness: a pre-processed demand that lost a row off the half hour and
\* kept two rows
C8_Witness ==
    /\ demand # NoValue /\ demand.raised = "none"
    /\ \E i \in 1..Len(data.rows) : data.rows[i].ts.minute % 60 \notin {0, 30}
    /\ Len(demand.value.rows) = 2

-----------------------------------------------------------------------------
(* PreProcessSolarIrradiance.fill_in_zero_values                           *)

RowsOfDay(rows, day) == SelectSeq(rows, LAMBDA r : DateOf(r.ts) = day)

RowsAtTime(rows, time_period) == SelectSeq(rows, LAMBDA r : r.ts.minute = time_period)

\* solar_irradiance.loc[(date == day) & (time == time_period), SOLAR_IRRADIANCE] = value
SetValue(rows, day, time_period, value) ==
    [i \in 1..Len(rows) |->
        IF DateOf(rows[i].ts) = day /\ rows[i].ts.minute = time_period
        THEN Row(rows[i].ts, value) ELSE rows[i]]

\* the loop over the time periods of one day; .values[0] of an empty
\* selection raises IndexError
RECURSIVE FillTimePeriods(_, _, _, _, _)
FillTimePeriods(rows, day, solar_irradiance_day, solar_irradiance_previous_day, time_periods) ==
    IF time_periods = <<>> THEN Ok(rows)
    ELSE LET time_period == time_periods[1]
             solar_irradiance_value == RowsAtTime(solar_irradiance_day, time_period)[1].val
             previous == RowsAtTime(solar_irradiance_previous_day, time_period)
         IN  IF solar_irradiance_value # 0
             THEN FillTimePeriods(rows, day, solar_irradiance_day,
                                  solar_irradiance_previous_day, Tail(time_periods))
             ELSE IF previous = <<>> THEN Raise("IndexError")
             ELSE FillTimePeriods(
                      IF previous[1].val # 0
                      THEN SetValue(rows, day, time_period, previous[1].val) ELSE rows,
                      day, solar_irradiance_day, solar_irradiance_previous_day,
                      Tail(time_periods))

\* the loop over the days taken from the last day to the first: a day is
\* compared with a previous day that has not been filled yet
RECURSIVE FillDaysLastFirst(_, _)
FillDaysLastFirst(rows, days) ==
    IF days = <<>> THEN Ok(rows)
    ELSE LET day == days[Len(days)]
             solar_irradiance_day == RowsOfDay(rows, day)
             solar_irradiance_previous_day == RowsOfDay(rows, PrevDate(day))
             this == IF solar_irradiance_previous_day = <<>> THEN Ok(rows)
                     ELSE FillTimePeriods(rows, day, solar_irradiance_day,
                              solar_irradiance_previous_day,
                              Unique([i \in 1..Len(solar_irradiance_day) |->
                                         solar_irradiance_day[i].ts.minute]))
         IN  IF this.raised # "none" THEN this
             ELSE FillDaysLastFirst(this.value, SubSeq(days, 1, Len(days) - 1))

\* the loop over the days, in order of first appearance; each day reads the
\* frame as the earlier days left it
RECURSIVE FillDays(_, _)
FillDays(rows, days) ==
    IF days = <<>> THEN Ok(rows)
    ELSE LET day == days[1]
             solar_irradiance_day == RowsOfDay(rows, day)
             solar_irradiance_previous_day == RowsOfDay(rows, PrevDate(day))
             this == IF solar_irradiance_previous_day = <<>> THEN Ok(rows)
                     ELSE FillTimePeriods(rows, day, solar_irradiance_day,
                              solar_irradiance_previous_day,
                              Unique([i \in 1..Len(solar_irradiance_day) |->
                                         solar_irradiance_day[i].ts.minute]))
         IN  IF this.raised # "none" THEN this ELSE FillDays(this.value, Tail(days))

FillInZeroValues(frame) ==
    LET days == Unique([i \in 1..Len(frame.rows) |-> DateOf(frame.rows[i].ts)])
        done == FillDays(frame.rows, days)
    IN  IF done.raised # "none" THEN done ELSE Ok(Frame(frame.col, done.value))

-----------------------------------------------------------------------------
(* Specification of zero filling                                           *)

\* the series handed to zero filling: up to MaxRows rows with distinct
\* timestamps (duplicates are resolved before) on the half hours of the
\* days of one leap year, in any order
FillYear == CHOOSE y \in 2019..2022 : IsLeap(y)

HalfHours == {t \in TimesOfDay : t % 30 = 0}

YearTimestamps(y, times) ==
    {TS(y, DaysOf(y)[i].month, DaysOf(y)[i].day, t) : i \in 1..Len(DaysOf(y)), t \in times}

DistinctTimestamps(rows) == \A i, j \in 1..Len(rows) : rows[i].ts = rows[j].ts => i = j

FillInputs ==
    {rows \in SeqsUpTo({Row(ts, v) : ts \in YearTimestamps(FillYear, HalfHours), v \in RawValues},
                       MaxRows) : DistinctTimestamps(rows)}

InitFill ==
    /\ \E rows \in FillInputs : irradiance = Frame(SOLAR_IRRADIANCE, rows)
    /\ filled = NoValue
    /\ IdleDedup /\ IdleAlign /\ IdleOpt /\ IdleRest

\* fill_in_zero_values(irradiance)
FillZeros ==
    /\ irradiance # NoValue /\ filled = NoValue
    /\ filled' = FillInZeroValues(irradiance)
    /\ UNCHANGED <<irradiance, dedupVars, alignVars, optVars, restVars>>

NextFill == FillZeros

SpecFill == InitFill /\ [][NextFill]_vars

-----------------------------------------------------------------------------
(* Properties of zero filling                                              *)

\* position of a day in the order in which the loop visits the days
FirstRowOfDay(rows, day) == CHOOSE i \in 1..Len(rows) :
    /\ DateOf(rows[i].ts) = day
    /\ \A j \in 1..(i - 1) : DateOf(rows[j].ts) # day

\* the previous day's sample at the same time of day as the loop reads it
\* when it visits row i: the filled one when the previous day was visited
\* before, else the raw one; the empty sequence when the series has no such
\* sample
PreviousSample(raw, out, i) ==
    LET day == DateOf(raw[i].ts)
        prev == {j \in 1..Len(raw) :
                    DateOf(raw[j].ts) = PrevDate(day) /\ raw[j].ts.minute = raw[i].ts.minute}
    IN  IF prev = {} THEN <<>>
        ELSE LET j == CHOOSE k \in prev : TRUE
             IN  IF FirstRowOfDay(raw, PrevDate(day)) < FirstRowOfDay(raw, day)
                 THEN <<out[j].val>> ELSE <<raw[j].val>>

FillEffect(raw, out) ==
    /\ TimestampsOf(out) = TimestampsOf(raw)
    /\ \A i \in 1..Len(raw) :
          LET previous == PreviousSample(raw, out, i)
          IN  out[i].val = IF raw[i].val = 0 /\ previous # <<>> /\ previous[1] # 0
                           THEN previous[1] ELSE raw[i].val

\* C9: fill_in_zero_values completes without error, also when the previous
\* day lacks the time-of-day slot; it overwrites a sample exactly when the
\* sample is 0 and the previous calendar day's sample at the same time of day
\* is non-zero, with that value, and leaves every other sample and the
\* timestamps unchanged.
C9_FillOverwritesZeros ==
    filled # NoValue =>
        /\ filled.raised = "none"
        /\ FillEffect(irradiance.rows, filled.value.rows)

\* the overwrite rule alone, for the calls that return
FillEffectWhenReturned ==
    (filled # NoValue /\ filled.raised = "none") => FillEffect(irradiance.rows, filled.value.rows)

-----------------------------------------------------------------------------
(* PreProcessSolarIrradiance.pre_process                                   *)

\* the half hours from one timestamp to another
RECURSIVE HalfHourRange(_, _)
HalfHourRange(from, to) ==
    IF Key(from) > Key(to) THEN <<>>
    ELSE <<from>> \o HalfHourRange(PlusHalfHour(from), to)

\* the resampling with a forward fill: every half hour takes the value of
\* the last row at or before it
ResampleForwardFill(rows) ==
    LET index == HalfHourRange(rows[1].ts, rows[Len(rows)].ts)
    IN  [i \in 1..Len(index) |->
            LET before == SelectSeq(rows, LAMBDA r : Key(r.ts) <= Key(index[i]))
            IN  Row(index[i], before[Len(before)].val)]

\* resample("30min").bfill() of a series in ascending order on the half
\* hours: every half hour from the first to the last row, with the value of
\* the first row at or after it
Resample(rows) ==
    LET index == HalfHourRange(rows[1].ts, rows[Len(rows)].ts)
    IN  [i \in 1..Len(index) |->
            Row(index[i], SelectSeq(rows, LAMBDA r : Key(r.ts) >= Key(index[i]))[1].val)]

\* the synthetic row 30 minutes after the last one, repeating its value
WithTrailingRow(rows) ==
    Append(rows, Row(PlusHalfHour(rows[Len(rows)].ts), rows[Len(rows)].val))

\* energy_demand_profile.index.year.unique()
EnergyDemandYears(profile) == Unique([i \in 1..Len(profile.rows) |-> profile.rows[i].ts.year])

\* the loop over the rows of one clone: row.replace(year=year) raises
\* ValueError for a date the year does not have; the row is dropped when it
\* is 29 February, any other failure leaves the call
RECURSIVE ShiftRows(_, _)
ShiftRows(rows, year) ==
    IF rows = <<>> THEN Ok(<<>>)
    ELSE LET row == rows[1]
             rest == ShiftRows(Tail(rows), year)
         IN  IF ValidDate(year, row.ts.month, row.ts.day)
             THEN IF rest.raised # "none" THEN rest
                  ELSE Ok(<<Row([row.ts EXCEPT !.year = year], row.val)>> \o rest.value)
             ELSE IF row.ts.month = 2 /\ row.ts.day = 29 THEN rest
             ELSE Raise("ValueError")

SourceSharedWithClone(source, shifted) == shifted

\* data_with_resampled_timestamp.copy(): what the loop over one clone leaves
\* of the source series
SourceAfterShift(source, shifted) == source

\* the loop over the demand years: the clones in year order and the source
\* series as the loop leaves it
RECURSIVE ShiftAndRepeat(_, _)
ShiftAndRepeat(source, years) ==
    IF years = <<>> THEN [raised |-> "none", clones |-> <<>>, source |-> source]
    ELSE LET shifted == ShiftRows(source, years[1])
         IN  IF shifted.raised # "none"
             THEN [raised |-> shifted.raised, clones |-> <<>>, source |-> source]
             ELSE LET rest == ShiftAndRepeat(SourceAfterShift(source, shifted.value), Tail(years))
                  IN  [rest EXCEPT !.clones = <<shifted.value>> \o @]

\* pd.concat of the clones
RECURSIVE Concat(_)
Concat(frames) == IF frames = <<>> THEN <<>> ELSE frames[1] \o Concat(Tail(frames))

MergeRow(left_row, irr) == [ts |-> left_row.ts, demand |-> left_row.val, irr |-> irr]

\* a merge that fills an unmatched row from the row before it
RECURSIVE MergeForwardFilled(_, _)
MergeForwardFilled(left, right) ==
    IF left = <<>> THEN <<>>
    ELSE LET front == MergeForwardFilled(SubSeq(left, 1, Len(left) - 1), right)
             row == left[Len(left)]
             matches == SelectSeq(right, LAMBDA r : r.ts = row.ts)
         IN  IF matches = <<>>
             THEN Append(front, MergeRow(row, IF front = <<>> THEN <<0>> ELSE front[Len(front)].irr))
             ELSE front \o [i \in 1..Len(matches) |-> MergeRow(row, <<matches[i].val>>)]

\* energy_demand_profile.merge(right, left_index=True, right_index=True,
\* how="left"): the demand rows in order, each once per matching right row,
\* an unmatched one once with a missing irradiance (the empty sequence)
RECURSIVE MergeLeft(_, _)
MergeLeft(left, right) ==
    IF left = <<>> THEN <<>>
    ELSE LET matches == SelectSeq(right, LAMBDA r : r.ts = left[1].ts)
         IN  (IF matches = <<>> THEN <<MergeRow(left[1], <<>>)>>
              ELSE [i \in 1..Len(matches) |-> MergeRow(left[1], <<matches[i].val>>)])
             \o MergeLeft(Tail(left), right)

\* merged.isna().values.any()
AnyMissing(merged) == \E i \in 1..Len(merged) : merged[i].irr = <<>>

\* the outcome of an alignment, with the intermediate series it built and
\* the step it reached: "fill", "shift", "merge" or "return"
AlignOutcome(raised, value, reached, resampled, clones, source) ==
    [raised |-> raised, value |-> value, reached |-> reached, resampled |-> resampled,
     clones |-> clones, source |-> source]

\* PreProcessSolarIrradiance(profile).pre_process(raw); index[-1] of an empty
\* series raises IndexError
AlignPreProcess(profile, raw) ==
    LET base == BasePreProcess(raw, SOLAR_IRRADIANCE)
        zero_filled == IF base.raised # "none" THEN base ELSE FillInZeroValues(base.value)
    IN  IF zero_filled.raised # "none"
        THEN AlignOutcome(zero_filled.raised, NoValue, "fill", <<>>, <<>>, <<>>)
        ELSE IF zero_filled.value.rows = <<>>
        THEN AlignOutcome("IndexError", NoValue, "fill", <<>>, <<>>, <<>>)
        ELSE LET data_with_resampled_timestamp ==
                     WithTrailingRow(Resample(zero_filled.value.rows))
                 energy_demand_years == EnergyDemandYears(profile)
                 shifted == ShiftAndRepeat(data_with_resampled_timestamp, energy_demand_years)
                 merged == MergeLeft(profile.rows, Concat(shifted.clones))
             IN  IF shifted.raised # "none"
                 THEN AlignOutcome(shifted.raised, NoValue, "shift",
                                   data_with_resampled_timestamp, <<>>, shifted.source)
                 ELSE IF AnyMissing(merged)
                 THEN AlignOutcome("ValueError", NoValue, "merge",
                                   data_with_resampled_timestamp, shifted.clones, shifted.source)
                 ELSE AlignOutcome("none",
                          Frame(SOLAR_IRRADIANCE,
                                [i \in 1..Len(merged) |-> Row(merged[i].ts, merged[i].irr[1])]),
                          "return", data_with_resampled_timestamp, shifted.clones,
                          shifted.source)

-----------------------------------------------------------------------------
(* Specification of the alignment                                          *)

\* a non-leap and a leap year
DemandYears == {2019, 2020}

Ascending(rows) == \A i \in 1..Len(rows) - 1 : Key(rows[i].ts) < Key(rows[i + 1].ts)

Descending(rows) == \A i \in 1..Len(rows) - 1 : Key(rows[i].ts) > Key(rows[i + 1].ts)

\* a zero and a non-zero irradiance
SolarValues == {0, Unit}

\* the raw irradiance: up to MaxSolarRows rows of one year, in ascending
\* order on the half hours
SolarInputs ==
    UNION {{rows \in SeqsUpTo({Row(ts, v) : ts \in YearTimestamps(y, HalfHours), v \in SolarValues},
                              MaxSolarRows) : Ascending(rows)} : y \in DemandYears}

\* the pre-processed demand: 1..MaxDemandRows rows with distinct half-hour
\* timestamps of the demand years, in ascending or descending order
DemandInputs ==
    {rows \in SeqsUpTo({Row(ts, Unit) : ts \in UNION {YearTimestamps(y, HalfHours) : y \in DemandYears}},
                       MaxDemandRows) : rows # <<>> /\ (Ascending(rows) \/ Descending(rows))}

InitAlign ==
    /\ \E rows \in DemandInputs : energy_demand_profile = Frame(ENERGY_DEMAND, rows)
    /\ \E rows \in SolarInputs : solar = Frame(SOLAR_IRRADIANCE, rows)
    /\ aligned = NoValue
    /\ IdleDedup /\ IdleFill /\ IdleOpt /\ IdleRest

\* PreProcessSolarIrradiance(energy_demand_profile).pre_process(solar)
Align ==
    /\ solar # NoValue /\ aligned = NoValue
    /\ aligned' = AlignPreProcess(energy_demand_profile, solar)
    /\ UNCHANGED <<energy_demand_profile, solar, dedupVars, fillVars, optVars, restVars>>

NextAlign == Align

SpecAlign == InitAlign /\ [][NextAlign]_vars

-----------------------------------------------------------------------------
(* Properties of the alignment                                             *)

\* the half-hourly coverage of the raw irradiance: every half hour from its
\* first row to 30 minutes after its last
HalfHourCoverage(rows) ==
    IF rows = <<>> THEN {}
    ELSE {ts \in UNION {YearTimestamps(y, HalfHours) :
                           y \in rows[1].ts.year..(rows[Len(rows)].ts.year + 1)} :
             /\ Key(rows[1].ts) <= Key(ts)
             /\ Key(ts) <= Key(PlusHalfHour(rows[Len(rows)].ts))}

\* the timestamps of the coverage repeated over the demand years
YearRepeated(rows, years) ==
    {[ts EXCEPT !.year = y] : ts \in {c \in HalfHourCoverage(rows) : \E z \in years :
                                         ValidDate(z, c.month, c.day)}, y \in years}
        \cap UNION {YearTimestamps(y, HalfHours) : y \in years}

DemandYearSet == {energy_demand_profile.rows[i].ts.year : i \in 1..Len(energy_demand_profile.rows)}

Covered ==
    TimestampSet(energy_demand_profile.rows) \subseteq YearRepeated(solar.rows, DemandYearSet)

IsFeb29(ts) == ts.month = 2 /\ ts.day = 29

\* C1: when the year-repeated half-hourly irradiance was built and covers
\* every demand timestamp, the alignment returns a series whose timestamps
\* are the demand's timestamps: same length, same order, no extra and no
\* missing rows, also when two rows of the year-rewritten irradiance carry
\* the same timestamp.
C1_TimestampsEqualDemand ==
    (aligned # NoValue /\ aligned.reached # "fill" /\ Covered) =>
        /\ aligned.raised = "none"
        /\ TimestampsOf(aligned.value.rows) = TimestampsOf(energy_demand_profile.rows)

\* the same when no two rows of the year-rewritten irradiance carry the same
\* timestamp: then the merge yields one row per demand row
AlignedWhenRewrittenDistinct ==
    (aligned # NoValue /\ aligned.reached # "fill" /\ Covered
         /\ DistinctTimestamps(Concat(aligned.clones))) =>
        /\ aligned.raised = "none"
        /\ TimestampsOf(aligned.value.rows) = TimestampsOf(energy_demand_profile.rows)

\* C2: when some demand timestamp has no row in the year-repeated half-hourly
\* irradiance, the alignment fails and returns no series.
C2_UnmatchedFails ==
    (aligned # NoValue /\ ~Covered) => (aligned.raised # "none" /\ aligned.value = NoValue)

\* C2 witness: a demand with 29 February against an irradiance of a non-leap
\* year that covers every other day, refused by the check after the merge
C2_Witness ==
    /\ aligned # NoValue /\ ~Covered
    /\ aligned.reached = "merge" /\ aligned.raised = "ValueError"
    /\ ~IsLeap(solar.rows[1].ts.year)
    /\ \E i \in 1..Len(energy_demand_profile.rows) : IsFeb29(energy_demand_profile.rows[i].ts)
    /\ \E i \in 1..Len(energy_demand_profile.rows) :
          energy_demand_profile.rows[i].ts \in YearRepeated(solar.rows, DemandYearSet)

\* C3: the clone for a non-leap demand year holds every row of the resampled
\* irradiance except those of 29 February, the clone for a leap year holds
\* every row, each with its year rewritten and its value kept, and building
\* the clones leaves the resampled source series as it was.
C3_LeapDayPerYear ==
    (aligned # NoValue /\ aligned.reached \in {"merge", "return"}) =>
        LET years == EnergyDemandYears(energy_demand_profile)
            source == aligned.resampled
        IN  /\ aligned.source = source
            /\ Len(aligned.clones) = Len(years)
            /\ \A k \in 1..Len(years) :
                  LET kept == SelectSeq(source, LAMBDA r : IsLeap(years[k]) \/ ~IsFeb29(r.ts))
                  IN  aligned.clones[k] =
                          [i \in 1..Len(kept) |->
                              Row(TS(years[k], kept[i].ts.month, kept[i].ts.day, kept[i].ts.minute),
                                  kept[i].val)]

\* C3 witness: a returned alignment of a leap-year irradiance with 29 February
\* to a demand of a non-leap year followed by a leap year
C3_Witness ==
    /\ aligned # NoValue /\ aligned.raised = "none"
    /\ \E i \in 1..Len(aligned.resampled) : IsFeb29(aligned.resampled[i].ts)
    /\ Len(aligned.clones) = 2
    /\ Len(aligned.clones[1]) < Len(aligned.clones[2])
    /\ \E i \in 1..Len(aligned.clones[2]) : IsFeb29(aligned.clones[2][i].ts)

-----------------------------------------------------------------------------
(* OptimiserVariables.create_variables and Optimiser                       *)
(* An optional argument is the empty sequence (None) or <<x>>.  Energies   *)
(* and sizes are whole numbers; the degradation rate and the solar         *)
(* efficiency are percentages, so that 0.15 is 15.  A frame of n rows      *)
(* indexed 0..n-1 is the sequence of its values, slice t at position t+1.  *)

None == <<>>

\* Python's truth value of an optional number
Truthy(x) == x # None /\ x[1] # 0

\* solar_efficiency: Optional[float] = 0.15
DEFAULT_SOLAR_EFFICIENCY == 15

\* solar_size as a pulp variable with lower bound 0, or as the value handed in
SolarVariable == [kind |-> "variable", value |-> None]

SolarConstant(solar_size) == [kind |-> "constant", value |-> solar_size]

\* the class attributes of OptimiserVariables after create_variables has
\* assigned them: fresh LpVariable objects, which have no value yet, replace
\* the ones of the call before; generation counts the calls and so tells the
\* objects of one call from those of another
NewVariables(cls, time_slices, solar_size) ==
    [time_slices |-> time_slices, solar_size |-> solar_size,
     generation |-> IF cls = NoValue THEN 1 ELSE cls.generation + 1,
     values |-> NoValue]

\* create_variables without its final else: any other objective is taken for
\* the battery objective
CreateVariablesNoElse(cls, time_slices, optimisation_objective, solar_size) ==
    IF optimisation_objective = MINIMISE_BATTERY_AND_SOLAR_COST
    THEN Ok(NewVariables(cls, time_slices, SolarVariable))
    ELSE Ok(NewVariables(cls, time_slices, SolarConstant(solar_size)))

\* the class attributes create_variables sets: the four per-slice dicts and
\* battery_capacity over time_slices, then solar_size according to the
\* objective; an unknown objective raises after the per-slice attributes
\* are set, solar_size staying what it was
CreateVariables(cls, time_slices, optimisation_objective, solar_size) ==
    IF optimisation_objective = MINIMISE_BATTERY_AND_SOLAR_COST
    THEN Ok(NewVariables(cls, time_slices, SolarVariable))
    ELSE IF optimisation_objective = MINIMISE_BATTERY_CAP
    THEN Ok(NewVariables(cls, time_slices, SolarConstant(solar_size)))
    ELSE [raised |-> "ValueError",
          value |-> NewVariables(cls, time_slices,
                                 IF cls = NoValue THEN [kind |-> "unset", value |-> None]
                                 ELSE cls.solar_size)]

\* the advisory create_variables logs: a solar size handed in under the cost
\* objective is ignored
CreateVariablesAdvisories(optimisation_objective, solar_size) ==
    IF optimisation_objective = MINIMISE_BATTERY_AND_SOLAR_COST /\ Truthy(solar_size)
    THEN <<"solar_size_ignored">> ELSE <<>>

\* __init__ storing the capex values under either objective
NewOptimiserKeepsCapex(a) ==
    [energy_demand |-> a.energy_demand,
     solar_irradiance |-> a.solar_irradiance,
     optimisation_objective |-> a.optimisation_objective,
     time_slices |-> a.time_slices,
     solar_capex |-> a.solar_capex,
     battery_capex |-> a.battery_capex,
     problem |-> NoValue,
     args |-> [optimisation_objective |-> a.optimisation_objective,
               solar_size |-> a.solar_size,
               solar_capex |-> a.solar_capex, battery_capex |-> a.battery_capex]]

\* the attributes Optimiser.__init__ sets; problem is the class attribute
\* None until _define_problem assigns it; args keeps the arguments of the call
NewOptimiser(a) ==
    [energy_demand |-> a.energy_demand,
     solar_irradiance |-> a.solar_irradiance,
     optimisation_objective |-> a.optimisation_objective,
     time_slices |-> a.time_slices,
     solar_capex |-> IF a.optimisation_objective = MINIMISE_BATTERY_AND_SOLAR_COST
                     THEN a.solar_capex ELSE None,
     battery_capex |-> IF a.optimisation_objective = MINIMISE_BATTERY_AND_SOLAR_COST
                       THEN a.battery_capex ELSE None,
     problem |-> NoValue,
     args |-> [optimisation_objective |-> a.optimisation_objective,
               solar_size |-> a.solar_size,
               solar_capex |-> a.solar_capex, battery_capex |-> a.battery_capex]]

\* pl.LpProblem(name, pl.LpMinimize)
LpProblem(name) == [name |-> name, objective |-> None, constraints |-> <<>>, variables |-> NoValue]

\* _define_problem that keeps a problem the Optimiser already has
DefineProblemKept(self) ==
    IF self.problem # NoValue THEN Ok(self)
    ELSE IF self.optimisation_objective = MINIMISE_BATTERY_CAP
    THEN Ok([self EXCEPT !.problem = LpProblem("BatterySizeMinimisation")])
    ELSE IF self.optimisation_objective = MINIMISE_BATTERY_AND_SOLAR_COST
    THEN Ok([self EXCEPT !.problem = LpProblem("BatteryAndPVCostMinimisation")])
    ELSE [raised |-> "ValueError", value |-> self]

\* Optimiser._define_problem
DefineProblem(self) ==
    IF self.optimisation_objective = MINIMISE_BATTERY_CAP
    THEN Ok([self EXCEPT !.problem = LpProblem("BatterySizeMinimisation")])
    ELSE IF self.optimisation_objective = MINIMISE_BATTERY_AND_SOLAR_COST
    THEN Ok([self EXCEPT !.problem = LpProblem("BatteryAndPVCostMinimisation")])
    ELSE [raised |-> "ValueError", value |-> self]

\* the battery objective set to solar_size instead of battery_capacity
DefineObjectiveFunctionSolarSize(self, battery_capex, solar_capex) ==
    IF self.optimisation_objective = MINIMISE_BATTERY_CAP
    THEN Ok([self EXCEPT !.problem.objective =
                <<[battery_capacity |-> 0, solar_size |-> 1]>>])
    ELSE IF self.optimisation_objective = MINIMISE_BATTERY_AND_SOLAR_COST
    THEN IF battery_capex = None \/ solar_capex = None
         THEN [raised |-> "TypeError", value |-> self]
         ELSE Ok([self EXCEPT !.problem.objective =
                     <<[battery_capacity |-> battery_capex[1], solar_size |-> solar_capex[1]]>>])
    ELSE [raised |-> "ValueError", value |-> self]

\* Optimiser._define_objective_function: the objective as the coefficients
\* of battery_capacity and solar_size; a variable times None raises TypeError
DefineObjectiveFunction(self, battery_capex, solar_capex) ==
    IF self.optimisation_objective = MINIMISE_BATTERY_CAP
    THEN Ok([self EXCEPT !.problem.objective =
                <<[battery_capacity |-> 1, solar_size |-> 0]>>])
    ELSE IF self.optimisation_objective = MINIMISE_BATTERY_AND_SOLAR_COST
    THEN IF battery_capex = None \/ solar_capex = None
         THEN [raised |-> "TypeError", value |-> self]
         ELSE Ok([self EXCEPT !.problem.objective =
                     <<[battery_capacity |-> battery_capex[1], solar_size |-> solar_capex[1]]>>])
    ELSE [raised |-> "ValueError", value |-> self]

\* the advisories _define_objective_function logs under the battery
\* objective, for the capex values it is handed
ObjectiveAdvisories(self, battery_capex, solar_capex) ==
    IF self.optimisation_objective = MINIMISE_BATTERY_CAP
    THEN (IF Truthy(battery_capex) THEN <<"battery_capex_ignored">> ELSE <<>>)
         \o (IF Truthy(solar_capex) THEN <<"solar_capex_ignored">> ELSE <<>>)
    ELSE <<>>

\* a constraint: its kind, its time slice and the numbers it is built from
Constraint(kind, t, terms) == [kind |-> kind, t |-> t, terms |-> terms]

\* the generation bound of every slice taken from the first row of the
\* irradiance frame
GenerationConstraintFirstRow(self, cls, t, solar_efficiency) ==
    Constraint("generation", t,
               [solar_irradiance |-> self.solar_irradiance[1],
                solar_size |-> cls.solar_size,
                solar_efficiency |-> solar_efficiency])

\* renewable_electricity_to_house[t] + renewable_electricity_to_battery[t]
\*     <= solar_irradiance[t] * solar_size * solar_efficiency * 0.5
GenerationConstraint(self, cls, t, solar_efficiency) ==
    Constraint("generation", t,
               [solar_irradiance |-> self.solar_irradiance[t + 1],
                solar_size |-> cls.solar_size,
                solar_efficiency |-> solar_efficiency])

\* the demand of slice t read from the row before it
DemandConstraintRowBefore(self, t) ==
    Constraint("demand", t, [energy_demand |-> self.energy_demand[IF t = 0 THEN 1 ELSE t]])

\* renewable_electricity_to_house[t] + battery_electricity_to_house[t]
\*     == energy_demand[t]
DemandConstraint(self, t) ==
    Constraint("demand", t, [energy_demand |-> self.energy_demand[t + 1]])

\* battery_state_of_charge[0] == battery_initial_capacity
InitialConstraint(t, battery_initial_capacity) ==
    Constraint("initial", t, [battery_initial_capacity |-> battery_initial_capacity])

\* battery_state_of_charge[t] == battery_state_of_charge[t-1]
\*     + renewable_electricity_to_battery[t] - battery_electricity_to_house[t]
\*     - battery_degradation_rate * (1 - battery_state_of_charge[t-1])
BalanceConstraint(t, battery_degradation_rate) ==
    Constraint("balance", t, [battery_degradation_rate |-> battery_degradation_rate])

\* battery_state_of_charge[t] <= battery_capacity
CapacityConstraint(t) == Constraint("capacity", t, NoValue)

\* the capacity bound added only on the balance branch, for t > 0
SliceConstraintsCapacityAfterFirst(self, cls, t, battery_initial_capacity, battery_degradation_rate, solar_efficiency) ==
    << GenerationConstraint(self, cls, t, solar_efficiency),
       DemandConstraint(self, t) >>
    \o (IF t = 0 THEN << InitialConstraint(t, battery_initial_capacity) >>
        ELSE << BalanceConstraint(t, battery_degradation_rate), CapacityConstraint(t) >>)

\* the initial-charge constraint added for every slice, the balance for none
SliceConstraintsAlwaysInitial(self, cls, t, battery_initial_capacity, battery_degradation_rate, solar_efficiency) ==
    << GenerationConstraint(self, cls, t, solar_efficiency),
       DemandConstraint(self, t),
       InitialConstraint(t, battery_initial_capacity),
       CapacityConstraint(t) >>

\* the constraints of one time slice, in the order they are added
SliceConstraints(self, cls, t, battery_initial_capacity, battery_degradation_rate, solar_efficiency) ==
    << GenerationConstraint(self, cls, t, solar_efficiency),
       DemandConstraint(self, t),
       IF t = 0 THEN InitialConstraint(t, battery_initial_capacity)
       ELSE BalanceConstraint(t, battery_degradation_rate),
       CapacityConstraint(t) >>

\* solar_irradiance[t] * self.variables.solar_size raises TypeError when
\* solar_size is None
GenerationRaises(cls) == cls.solar_size.kind = "constant" /\ cls.solar_size.value = None

\* the loop over the time slices 0..time_slices-1
RECURSIVE DefineConstraints(_, _, _, _, _, _)
DefineConstraints(self, cls, t, battery_initial_capacity, battery_degradation_rate, solar_efficiency) ==
    IF t >= self.time_slices THEN Ok(self)
    ELSE IF GenerationRaises(cls) THEN [raised |-> "TypeError", value |-> self]
    ELSE IF t >= cls.time_slices THEN [raised |-> "KeyError", value |-> self]
    ELSE DefineConstraints(
             [self EXCEPT !.problem.constraints =
                 @ \o SliceConstraints(self, cls, t, battery_initial_capacity,
                                       battery_degradation_rate, solar_efficiency)],
             cls, t + 1, battery_initial_capacity, battery_degradation_rate,
             solar_efficiency)

\* the advisories logged by the time the objective function is defined
BuildAdvisories(self) ==
    IF DefineProblem(self).raised # "none" THEN <<>>
    ELSE ObjectiveAdvisories(self, self.battery_capex, self.solar_capex)

\* the variable objects the expressions of a problem are written over: the
\* class attributes as they are while the problem is built
VariablesOf(cls) ==
    [time_slices |-> cls.time_slices, solar_size |-> cls.solar_size,
     generation |-> cls.generation]

\* Optimiser.create_optimisation_problem: the error that leaves the call, if
\* any, and the instance as the call leaves it
CreateOptimisationProblem(self, cls, battery_initial_capacity, battery_degradation_rate, solar_efficiency) ==
    LET defined == DefineProblem(self)
        objective == IF defined.raised # "none" THEN defined
                     ELSE DefineObjectiveFunction(
                              [defined.value EXCEPT !.problem.variables = VariablesOf(cls)],
                              self.battery_capex, self.solar_capex)
    IN  IF objective.raised # "none" THEN objective
        ELSE DefineConstraints(objective.value, cls, 0, battery_initial_capacity,
                               battery_degradation_rate, solar_efficiency)

-----------------------------------------------------------------------------
(* The solver behind problem.solve()                                       *)
(* A solution gives every variable of the problem a value in 0..MaxAmount; *)
(* the per-slice variables are sequences, slice t at position t+1.         *)

\* the value of solar_size in a solution: the variable's, or the constant
SolarSizeValue(size, a) == IF size.kind = "variable" THEN a.solar_size ELSE size.value[1]

\* whether the values of a satisfy the constraint c
Holds(c, a) ==
    LET i == c.t + 1 IN
    CASE c.kind = "generation" ->
           (a.renewable_electricity_to_house[i] + a.renewable_electricity_to_battery[i]) * 100 * 2
               <= c.terms.solar_irradiance * SolarSizeValue(c.terms.solar_size, a)
                      * c.terms.solar_efficiency
      [] c.kind = "demand" ->
           a.renewable_electricity_to_house[i] + a.battery_electricity_to_house[i]
               = c.terms.energy_demand
      [] c.kind = "initial" ->
           a.battery_state_of_charge[i] = c.terms.battery_initial_capacity
      [] c.kind = "balance" ->
           100 * a.battery_state_of_charge[i]
               = 100 * a.battery_state_of_charge[i - 1]
                 + 100 * a.renewable_electricity_to_battery[i]
                 - 100 * a.battery_electricity_to_house[i]
                 - c.terms.battery_degradation_rate * (1 - a.battery_state_of_charge[i - 1])
      [] c.kind = "capacity" ->
           a.battery_state_of_charge[i] <= a.battery_capacity

Amounts == 0..MaxAmount

\* the time slices the constraints of the problem range over
SlicesOf(problem) ==
    IF problem.constraints = <<>> THEN 0
    ELSE problem.constraints[Len(problem.constraints)].t + 1

ConstraintsAt(problem, t) ==
    {problem.constraints[k] : k \in {j \in 1..Len(problem.constraints) :
                                        problem.constraints[j].t = t}}

NoSlices(battery_capacity, solar_size) ==
    [battery_capacity |-> battery_capacity, solar_size |-> solar_size,
     renewable_electricity_to_house |-> <<>>, renewable_electricity_to_battery |-> <<>>,
     battery_electricity_to_house |-> <<>>, battery_state_of_charge |-> <<>>]

WithSlice(a, to_house, to_battery, from_battery, charge) ==
    [a EXCEPT !.renewable_electricity_to_house = Append(@, to_house),
              !.renewable_electricity_to_battery = Append(@, to_battery),
              !.battery_electricity_to_house = Append(@, from_battery),
              !.battery_state_of_charge = Append(@, charge)]

\* the constraints among cs of the given kinds that the values of a violate
Violated(cs, kinds, a) == {c \in cs : c.kind \in kinds /\ ~Holds(c, a)}

\* the solutions of slices 0..t that satisfy every constraint of those slices.
\* The values of a slice are chosen variable by variable, and a constraint is
\* tested once the variables it mentions have their values.
RECURSIVE SolutionsUpTo(_, _, _)
SolutionsUpTo(problem, start, t) ==
    IF t < 0 THEN start
    ELSE LET earlier == SolutionsUpTo(problem, start, t - 1)
             here == ConstraintsAt(problem, t)
             Generated(a) ==
                 {v \in Amounts \X Amounts :
                     Violated(here, {"generation"}, WithSlice(a, v[1], v[2], 0, 0)) = {}}
             Served(a, v) ==
                 {d \in Amounts :
                     Violated(here, {"demand"}, WithSlice(a, v[1], v[2], d, 0)) = {}}
             Charged(a, v, d) ==
                 {c \in Amounts :
                     Violated(here, {"initial", "balance", "capacity"},
                              WithSlice(a, v[1], v[2], d, c)) = {}}
             Extended(a) ==
                 UNION {UNION {{WithSlice(a, v[1], v[2], d, c) : c \in Charged(a, v, d)} :
                                  d \in Served(a, v)} :
                           v \in Generated(a)}
         IN  UNION {Extended(a) : a \in earlier}

\* every solution that satisfies all constraints of the problem
FeasibleSolutions(problem, cls) ==
    SolutionsUpTo(problem,
                  {NoSlices(capacity, size) :
                      capacity \in Amounts,
                      size \in IF cls.solar_size.kind = "variable" THEN Amounts ELSE {0}},
                  SlicesOf(problem) - 1)

\* pl.value(problem.objective)
ObjectiveValue(problem, a) ==
    IF problem.objective = None THEN 0
    ELSE problem.objective[1].battery_capacity * a.battery_capacity
         + problem.objective[1].solar_size * a.solar_size

\* the feasible solutions with the least value of the objective
OptimalSolutions(problem, cls) ==
    LET feasible == FeasibleSolutions(problem, cls)
        values == {ObjectiveValue(problem, a) : a \in feasible}
        least == CHOOSE m \in values : \A k \in values : m <= k
    IN  IF feasible = {} THEN {}
        ELSE {a \in feasible : ObjectiveValue(problem, a) = least}

ZeroSolution(n) ==
    [battery_capacity |-> 0, solar_size |-> 0,
     renewable_electricity_to_house |-> [t \in 1..n |-> 0],
     renewable_electricity_to_battery |-> [t \in 1..n |-> 0],
     battery_electricity_to_house |-> [t \in 1..n |-> 0],
     battery_state_of_charge |-> [t \in 1..n |-> 0]]

\* what the solver leaves behind: the status and the values of the
\* variables; without a solution the values are left unset (None) or are the
\* solver's zeros
SolverOutcomes(problem, cls) ==
    LET optimal == OptimalSolutions(problem, cls)
    IN  IF optimal # {}
        THEN {[status |-> "Optimal", values |-> a] : a \in optimal}
        ELSE {[status |-> "Infeasible", values |-> v] :
                 v \in {NoValue, ZeroSolution(SlicesOf(problem))}}

\* the values of variable objects after the solver has assigned new to the
\* ones of its problem: the others keep what they had
Overlay(old, new) ==
    IF new = NoValue THEN old
    ELSE IF old = NoValue THEN new
    ELSE LET Merged(before, after) ==
                 [t \in 1..(IF Len(before) > Len(after) THEN Len(before) ELSE Len(after)) |->
                     IF t <= Len(after) THEN after[t] ELSE before[t]]
         IN  [battery_capacity |-> new.battery_capacity, solar_size |-> new.solar_size,
              renewable_electricity_to_house |->
                  Merged(old.renewable_electricity_to_house, new.renewable_electricity_to_house),
              renewable_electricity_to_battery |->
                  Merged(old.renewable_electricity_to_battery,
                         new.renewable_electricity_to_battery),
              battery_electricity_to_house |->
                  Merged(old.battery_electricity_to_house, new.battery_electricity_to_house),
              battery_state_of_charge |->
                  Merged(old.battery_state_of_charge, new.battery_state_of_charge)]

\* whether the problem of self is written over the variable objects the class
\* holds now
OverClassVariables(self, cls) == self.problem.variables.generation = cls.generation

\* the class attributes after self.problem.solve(): the solver assigns the
\* variables of the problem; the class sees the values only when its
\* attributes still are those objects
Assigned(self, cls, outcome) ==
    IF self.problem # NoValue /\ OverClassVariables(self, cls)
    THEN [cls EXCEPT !.values = Overlay(@, outcome.values)]
    ELSE cls

\* Optimiser.solve once the solver has run: the values are read back through
\* self.variables for the log, under the cost objective multiplied by the
\* capex
AfterSolver(self, cls, outcome) ==
    LET value == [invoked |-> TRUE, status |-> outcome.status, values |-> outcome.values]
    IN  IF self.problem.objective = None \/ GenerationRaises(cls)
        THEN [raised |-> "AttributeError", value |-> value]
        ELSE IF /\ self.optimisation_objective = MINIMISE_BATTERY_AND_SOLAR_COST
                /\ (Assigned(self, cls, outcome).values = NoValue
                       \/ self.battery_capex = None \/ self.solar_capex = None)
        THEN [raised |-> "TypeError", value |-> value]
        ELSE Ok(value)

\* solve without the test of self.problem: None has no solve method
SolveOutcomesUnchecked(self, cls) ==
    IF self.problem = NoValue
    THEN {[raised |-> "AttributeError",
           value |-> [invoked |-> FALSE, status |-> "none", values |-> NoValue]]}
    ELSE {AfterSolver(self, cls, outcome) :
             outcome \in SolverOutcomes(self.problem, self.problem.variables)}

\* Optimiser.solve: every outcome the call can have
SolveOutcomes(self, cls) ==
    IF self.problem = NoValue
    THEN {[raised |-> "ValueError",
           value |-> [invoked |-> FALSE, status |-> "none", values |-> NoValue]]}
    ELSE {AfterSolver(self, cls, outcome) :
             outcome \in SolverOutcomes(self.problem, self.problem.variables)}

\* the rows dump_results writes: one per time slice
ResultRows(self, cls, a, of_problem) ==
    [t \in 1..self.time_slices |->
        [battery_state_of_charge |-> a.battery_state_of_charge[t],
         renewable_electricity_to_house |-> a.renewable_electricity_to_house[t],
         battery_electricity_to_house |-> a.battery_electricity_to_house[t],
         total_electricity_to_house |->
             a.battery_electricity_to_house[t] + a.renewable_electricity_to_house[t],
         excess_electricity |->
             a.battery_electricity_to_house[t] + a.renewable_electricity_to_house[t]
                 - self.energy_demand[t],
         battery_capacity |-> a.battery_capacity,
         solar_size |-> SolarSizeValue(cls.solar_size, a),
         cost |-> IF self.optimisation_objective = MINIMISE_BATTERY_AND_SOLAR_COST
                  THEN <<[total_cost |-> IF of_problem = NoValue THEN None
                                         ELSE ObjectiveValue(self.problem, of_problem),
                          battery_cost |-> a.battery_capacity * self.battery_capex[1],
                          solar_cost |-> a.solar_size * self.solar_capex[1]]>>
                  ELSE None]]

\* Optimiser.dump_results: the values are read through self.variables, the
\* total cost through the problem; own is what the last solve of self left in
\* the variables of its problem. A slice the class has no variable for is a
\* KeyError, values that are unset cannot be added or multiplied
DumpResults(self, cls, own) ==
    LET a == cls.values
        of_problem == IF OverClassVariables(self, cls) THEN a ELSE own
    IN  IF self.time_slices > cls.time_slices THEN Raise("KeyError")
        ELSE IF /\ self.time_slices > 0
                /\ (a = NoValue \/ Len(a.battery_state_of_charge) < self.time_slices)
        THEN Raise("TypeError")
        ELSE IF GenerationRaises(cls) THEN Raise("AttributeError")
        ELSE IF a = NoValue /\ self.optimisation_objective = MINIMISE_BATTERY_AND_SOLAR_COST
        THEN Raise("TypeError")
        ELSE IF a = NoValue THEN Ok(<<>>)
        ELSE IF /\ self.optimisation_objective = MINIMISE_BATTERY_AND_SOLAR_COST
                /\ (self.battery_capex = None \/ self.solar_capex = None)
        THEN Raise("TypeError")
        ELSE Ok(ResultRows(self, cls, a, of_problem))

-----------------------------------------------------------------------------
(* Specifications of the optimiser                                         *)

Objectives == {MINIMISE_BATTERY_CAP, MINIMISE_BATTERY_AND_SOLAR_COST, "unknown_objective"}

OptionalAmounts == {None} \cup {<<v>> : v \in 0..MaxVal}

DemandValues == {0, 1}

IrradianceValues == {0, 4}

\* the frame of n rows that all hold v
Profile(n, v) == [t \in 1..n |-> v]

\* the constructor calls of the configuration checks
ConfigInputs ==
    {[time_slices |-> n, optimisation_objective |-> objective, solar_size |-> solar_size,
      solar_capex |-> solar_capex, battery_capex |-> battery_capex,
      energy_demand |-> Profile(n, 1), solar_irradiance |-> Profile(n, irradiance_value)] :
        n \in 0..MaxSlices, objective \in Objectives, solar_size \in OptionalAmounts,
        solar_capex \in OptionalAmounts, battery_capex \in OptionalAmounts,
        irradiance_value \in IrradianceValues}

\* the create_optimisation_problem calls of the configuration checks
ConfigBuilds ==
    {[battery_initial_capacity |-> 0, battery_degradation_rate |-> 0,
      solar_efficiency |-> efficiency] : efficiency \in {None, <<100>>}}

InitOpt ==
    /\ variables = NoValue /\ optimiser = NoValue /\ built = NoValue /\ solved = NoValue
    /\ request = NoValue /\ log = NoValue /\ results = NoValue
    /\ IdleDedup /\ IdleFill /\ IdleAlign /\ IdleRest

\* Optimiser(energy_demand, solar_irradiance, time_slices=range(n),
\* optimisation_objective, solar_size, solar_capex, battery_capex)
ConstructFrom(inputs) ==
    /\ optimiser = NoValue
    /\ \E a \in inputs :
          LET created == CreateVariables(variables, a.time_slices, a.optimisation_objective,
                                         a.solar_size)
          IN  /\ request' = a
              /\ variables' = created.value
              /\ log' = CreateVariablesAdvisories(a.optimisation_objective, a.solar_size)
              /\ optimiser' = IF created.raised # "none" THEN Raise(created.raised)
                              ELSE Ok(NewOptimiser(a))
    /\ UNCHANGED <<built, solved, results, dedupVars, fillVars, alignVars, restVars>>

Construct == ConstructFrom(ConfigInputs)

\* optimiser.create_optimisation_problem(battery_initial_capacity,
\* battery_degradation_rate[, solar_efficiency])
CreateProblemFrom(inputs) ==
    /\ optimiser # NoValue /\ optimiser.raised = "none" /\ built = NoValue
    /\ \E b \in inputs :
          LET outcome == CreateOptimisationProblem(
                             optimiser.value, variables, b.battery_initial_capacity,
                             b.battery_degradation_rate,
                             IF b.solar_efficiency = None THEN DEFAULT_SOLAR_EFFICIENCY
                             ELSE b.solar_efficiency[1])
          IN  /\ optimiser' = Ok(outcome.value)
              /\ log' = log \o BuildAdvisories(optimiser.value)
              /\ built' = [raised |-> outcome.raised, value |-> b, calls |-> 1]
    /\ UNCHANGED <<variables, solved, request, results, dedupVars, fillVars, alignVars, restVars>>

CreateProblem == CreateProblemFrom(ConfigBuilds)

\* optimiser.solve(): refused when problem is None, else the solver is invoked
Solve ==
    /\ optimiser # NoValue /\ optimiser.raised = "none" /\ solved = NoValue
    /\ \E outcome \in SolveOutcomes(optimiser.value, variables) :
          /\ solved' = outcome
          /\ variables' = IF outcome.value.invoked
                          THEN Assigned(optimiser.value, variables, outcome.value)
                          ELSE variables
    /\ UNCHANGED <<optimiser, built, request, log, results, dedupVars, fillVars, alignVars, restVars>>

\* optimiser.dump_results(output_path) after solve
Dump ==
    /\ solved # NoValue /\ solved.value.invoked /\ results = NoValue
    /\ results' = DumpResults(optimiser.value, variables, solved.value.values)
    /\ UNCHANGED <<variables, optimiser, built, solved, request, log,
                   dedupVars, fillVars, alignVars, restVars>>

NextOpt == Construct \/ CreateProblem \/ Solve \/ Dump

SpecOpt == InitOpt /\ [][NextOpt]_vars

-----------------------------------------------------------------------------
(* Specification of the optimisation problems handed to the solver         *)

\* the frames of n rows: every frame of at most two rows, and the frames of
\* more rows that hold one value throughout
Profiles(n, values) ==
    IF n <= 2 THEN [1..n -> values] ELSE {Profile(n, v) : v \in values}

\* the irradiance frames of n rows: every frame of at most two rows, the
\* frames of three or four rows that hold one value throughout, and for more
\* rows the frame without irradiance
IrradianceProfiles(n) ==
    IF n <= 4 THEN Profiles(n, IrradianceValues) ELSE {Profile(n, 0)}

\* constructor calls with every input the objective needs
ScenarioInputs ==
    UNION {{[time_slices |-> n, optimisation_objective |-> objective, solar_size |-> <<size>>,
             solar_capex |-> <<1>>, battery_capex |-> <<1>>,
             energy_demand |-> energy_demand, solar_irradiance |-> solar_irradiance] :
               objective \in {MINIMISE_BATTERY_CAP, MINIMISE_BATTERY_AND_SOLAR_COST},
               size \in {0, 1},
               energy_demand \in Profiles(n, DemandValues),
               solar_irradiance \in IrradianceProfiles(n)} :
           n \in 0..MaxScenarioSlices}

ScenarioBuilds ==
    {[battery_initial_capacity |-> capacity, battery_degradation_rate |-> rate,
      solar_efficiency |-> efficiency] :
        capacity \in {0, 1}, rate \in {0, 100}, efficiency \in {None, <<100>>}}

ConstructScenario == ConstructFrom(ScenarioInputs)

CreateScenarioProblem == CreateProblemFrom(ScenarioBuilds)

NextSolve == ConstructScenario \/ CreateScenarioProblem \/ Solve \/ Dump

SpecSolve == InitOpt /\ [][NextSolve]_vars

-----------------------------------------------------------------------------
(* Properties of the optimiser                                             *)

\* an input the chosen objective requires was not supplied
MissingInput(args) ==
    \/ args.optimisation_objective = MINIMISE_BATTERY_CAP /\ args.solar_size = None
    \/ /\ args.optimisation_objective = MINIMISE_BATTERY_AND_SOLAR_COST
       /\ (args.battery_capex = None \/ args.solar_capex = None)

\* C10: building the problem fails when the objective is MinimiseBatteryCapacity
\* and no solar_size was supplied, and when it is MinimiseBatteryAndSolarCost
\* and a capex is missing, and leaves no problem on the Optimiser that solve
\* would run.
C10_MissingInputFailsBuild ==
    (built # NoValue /\ MissingInput(optimiser.value.args)) =>
        /\ built.raised # "none"
        /\ optimiser.value.problem = NoValue

\* the build does fail for a missing input when there is a time slice to
\* constrain or the capex is needed for the objective
MissingInputRaisesWithSlices ==
    (built # NoValue /\ MissingInput(optimiser.value.args)
        /\ (optimiser.value.time_slices > 0
              \/ optimiser.value.optimisation_objective = MINIMISE_BATTERY_AND_SOLAR_COST))
        => built.raised = "TypeError"

\* a failed build leaves a problem on which solve invokes the solver
SolveAfterFailedBuild ==
    /\ built # NoValue /\ built.raised # "none"
    /\ solved # NoValue /\ solved.value.invoked

KnownObjectives == {MINIMISE_BATTERY_CAP, MINIMISE_BATTERY_AND_SOLAR_COST}

\* C11: constructing an Optimiser with an objective other than the two known
\* ones fails with the unknown-objective error: no instance and no problem
\* exist afterwards, nothing is built or solved; and on an instance whose
\* objective is none of the two, building the problem fails with the same error
\* and creates no problem.
C11_UnknownObjectiveFails ==
    /\ (request # NoValue /\ request.optimisation_objective \notin KnownObjectives) =>
           /\ optimiser.raised = "ValueError" /\ optimiser.value = NoValue
           /\ built = NoValue /\ solved = NoValue
    /\ (optimiser # NoValue /\ optimiser.raised = "none" /\ built = NoValue) =>
           LET other == [optimiser.value EXCEPT !.optimisation_objective = "unknown_objective"]
               outcome == CreateOptimisationProblem(other, variables, 0, 0,
                                                    DEFAULT_SOLAR_EFFICIENCY)
           IN  outcome.raised = "ValueError" /\ outcome.value.problem = NoValue

C11_Witness ==
    /\ request # NoValue /\ request.optimisation_objective = "unknown_objective"
    /\ optimiser.raised = "ValueError"

\* C12: the objective decides the form of a built problem: under the battery
\* objective solar_size is the constant handed in, both stored capex values
\* are None and the objective is battery_capacity; under the cost objective
\* solar_size is a variable, whatever size was handed in, and the objective is
\* battery_capacity * battery_capex + solar_size * solar_capex.
C12_ObjectiveDecidesForm ==
    (built # NoValue /\ built.raised = "none") =>
        LET self == optimiser.value IN
        /\ request.optimisation_objective = MINIMISE_BATTERY_CAP =>
              /\ variables.solar_size = SolarConstant(request.solar_size)
              /\ self.solar_capex = None /\ self.battery_capex = None
              /\ self.problem.objective = <<[battery_capacity |-> 1, solar_size |-> 0]>>
        /\ request.optimisation_objective = MINIMISE_BATTERY_AND_SOLAR_COST =>
              /\ variables.solar_size = SolarVariable
              /\ self.problem.objective =
                     <<[battery_capacity |-> request.battery_capex[1],
                        solar_size |-> request.solar_capex[1]]>>

C12_Witness ==
    /\ built # NoValue /\ built.raised = "none"
    /\ \/ /\ request.optimisation_objective = MINIMISE_BATTERY_AND_SOLAR_COST
          /\ request.solar_size = <<1>>
          /\ variables.solar_size = SolarVariable
       \/ /\ request.optimisation_objective = MINIMISE_BATTERY_CAP
          /\ request.battery_capex = <<1>> /\ optimiser.value.battery_capex = None

\* the capex stored by __init__ under the battery objective is None, so no
\* advisory can be logged for it
CapexSuppliedForBatteryObjective ==
    /\ request.optimisation_objective = MINIMISE_BATTERY_CAP
    /\ request.solar_size # None
    /\ (Truthy(request.battery_capex) \/ Truthy(request.solar_capex))

\* C13: when an Optimiser is constructed with the battery objective and a
\* battery_capex or solar_capex value, building the problem succeeds and logs
\* an advisory that the capex is ignored.
C13_CapexAdvisory ==
    (built # NoValue /\ CapexSuppliedForBatteryObjective) =>
        /\ built.raised = "none"
        /\ \E k \in 1..Len(log) : log[k] \in {"battery_capex_ignored", "solar_capex_ignored"}

\* the solver was run on a problem that was built without error and found an
\* optimum
SolvedOptimal ==
    /\ built # NoValue /\ built.raised = "none"
    /\ solved # NoValue /\ solved.value.invoked /\ solved.value.status = "Optimal"

\* C14: the battery balance of the built problem is state_of_charge[0] =
\* initial_capacity and, for t > 0, state_of_charge[t] = state_of_charge[t-1]
\* + renewable_to_battery[t] - battery_to_house[t]
\* - degradation_rate * state_of_charge[t-1]; the degradation term is never
\* negative.  Stated of the solutions of the built problem.
C14_BatteryBalance ==
    SolvedOptimal =>
        LET a == solved.value.values
            rate == built.value.battery_degradation_rate
            n == optimiser.value.time_slices
        IN  /\ n > 0 => a.battery_state_of_charge[1] = built.value.battery_initial_capacity
            /\ \A i \in 2..n :
                  /\ 100 * a.battery_state_of_charge[i]
                        = 100 * a.battery_state_of_charge[i - 1]
                          + 100 * a.renewable_electricity_to_battery[i]
                          - 100 * a.battery_electricity_to_house[i]
                          - rate * a.battery_state_of_charge[i - 1]
                  /\ 100 * (a.battery_state_of_charge[i - 1]
                            + a.renewable_electricity_to_battery[i]
                            - a.battery_electricity_to_house[i]
                            - a.battery_state_of_charge[i]) >= 0

\* the balance holds as the claim states it when the degradation rate is 0
BalanceWithoutDegradation ==
    (SolvedOptimal /\ built.value.battery_degradation_rate = 0) => C14_BatteryBalance

\* C15: in every optimal solution, under either objective,
\* state_of_charge[t] <= battery_capacity for every slice t, t = 0 included,
\* so the optimal battery_capacity is at least initial_capacity.
C15_ChargeWithinCapacity ==
    SolvedOptimal =>
        LET a == solved.value.values
            n == optimiser.value.time_slices
        IN  /\ \A i \in 1..n : a.battery_state_of_charge[i] <= a.battery_capacity
            /\ n > 0 => a.battery_capacity >= built.value.battery_initial_capacity

C15_Witness ==
    /\ SolvedOptimal
    /\ optimiser.value.time_slices > 1
    /\ built.value.battery_initial_capacity = 1
    /\ solved.value.values.battery_capacity = 1
    /\ request.optimisation_objective = MINIMISE_BATTERY_AND_SOLAR_COST

\* a problem was built without error and solve has not been called; solve and
\* dump_results leave the problem as it was built
JustBuilt == built # NoValue /\ built.raised = "none" /\ solved = NoValue

\* the solar_efficiency of the build: 0.15 unless passed
EfficiencyOfBuild ==
    IF built.value.solar_efficiency = None THEN 15 ELSE built.value.solar_efficiency[1]

\* the solar size of a solution: the constant handed to the constructor, or
\* the value of the variable
SizeOfSolution(a) ==
    IF request.optimisation_objective = MINIMISE_BATTERY_CAP THEN request.solar_size[1]
    ELSE a.solar_size

\* C16: in every feasible solution of the built problem and for every slice t,
\* renewable_to_house[t] + renewable_to_battery[t] <= irradiance[t] *
\* solar_size * solar_efficiency * 0.5, with solar_efficiency 0.15 unless
\* passed and solar_size the constant or the variable according to the
\* objective.
C16_GenerationBound ==
    JustBuilt =>
        \A a \in FeasibleSolutions(optimiser.value.problem, variables) :
            \A i \in 1..request.time_slices :
                (a.renewable_electricity_to_house[i] + a.renewable_electricity_to_battery[i]) * 200
                    <= request.solar_irradiance[i] * SizeOfSolution(a) * EfficiencyOfBuild

\* a problem with a feasible solution that uses generation in the second slice
C16_Witness ==
    /\ JustBuilt
    /\ request.time_slices = 2
    /\ request.solar_irradiance = <<0, 4>>
    /\ \E a \in FeasibleSolutions(optimiser.value.problem, variables) :
          a.renewable_electricity_to_house[2] + a.renewable_electricity_to_battery[2] = 2

\* C17: in every feasible solution of the built problem and for every slice t,
\* renewable_to_house[t] + battery_to_house[t] = demand[t], so the
\* excess_electricity column dump_results writes for a solution is 0 in every
\* row.
C17_DemandMet ==
    /\ JustBuilt =>
          \A a \in FeasibleSolutions(optimiser.value.problem, variables) :
              \A i \in 1..request.time_slices :
                  a.renewable_electricity_to_house[i] + a.battery_electricity_to_house[i]
                      = request.energy_demand[i]
    /\ (SolvedOptimal /\ results # NoValue) =>
          /\ results.raised = "none"
          /\ Len(results.value) = request.time_slices
          /\ \A i \in 1..Len(results.value) : results.value[i].excess_electricity = 0

C17_Witness ==
    /\ SolvedOptimal /\ results # NoValue
    /\ request.energy_demand = <<0, 1>>
    /\ Len(results.value) = 2
    /\ results.value[2].total_electricity_to_house = 1

\* Scenario A: demand 1 in each of four slices, no irradiance, a solar array of
\* size 0, empty battery, no degradation, battery objective
ScenarioA ==
    /\ request # NoValue
    /\ request.time_slices = 4
    /\ request.energy_demand = <<1, 1, 1, 1>>
    /\ request.solar_irradiance = <<0, 0, 0, 0>>
    /\ request.optimisation_objective = MINIMISE_BATTERY_CAP
    /\ request.solar_size = <<0>>
    /\ built # NoValue /\ built.raised = "none"
    /\ built.value.battery_initial_capacity = 0
    /\ built.value.battery_degradation_rate = 0

\* C18: in Scenario A the built problem has no feasible solution and the
\* status after solve is Infeasible.
C18_ScenarioA ==
    (ScenarioA /\ solved # NoValue /\ solved.value.invoked) =>
        /\ FeasibleSolutions(optimiser.value.problem, variables) = {}
        /\ solved.value.status = "Infeasible"

C18_Witness == ScenarioA /\ solved # NoValue /\ solved.value.invoked

\* Scenario B: demand 1 in each of two slices, generation 2 in each
\* (irradiance 4, size 1, efficiency 1.0), battery objective, empty battery,
\* no degradation
ScenarioB ==
    /\ request # NoValue
    /\ request.time_slices = 2
    /\ request.energy_demand = <<1, 1>>
    /\ request.solar_irradiance = <<4, 4>>
    /\ request.optimisation_objective = MINIMISE_BATTERY_CAP
    /\ request.solar_size = <<1>>
    /\ built # NoValue /\ built.raised = "none"
    /\ built.value.solar_efficiency = <<100>>
    /\ built.value.battery_initial_capacity = 0
    /\ built.value.battery_degradation_rate = 0

\* C19: in Scenario B the optimum has battery_capacity = 0 and
\* renewable_to_house = [1,1], with battery_to_house = [0,0].
C19_ScenarioB ==
    (ScenarioB /\ SolvedOptimal) =>
        /\ solved.value.values.battery_capacity = 0
        /\ solved.value.values.renewable_electricity_to_house = <<1, 1>>
        /\ solved.value.values.battery_electricity_to_house = <<0, 0>>

\* C19 as amended: in Scenario B the solve finds an optimum; every optimum has
\* battery_capacity = 0 and meets the demand of 1 in each slice; and
\* renewable_to_house = [1,1] with battery_to_house = [0,0] is one of the
\* optimal solutions.
C19_ScenarioBOptimum ==
    /\ (ScenarioB /\ solved # NoValue /\ solved.value.invoked) =>
          /\ solved.value.status = "Optimal"
          /\ solved.value.values.battery_capacity = 0
          /\ \A i \in 1..2 :
                solved.value.values.renewable_electricity_to_house[i]
                    + solved.value.values.battery_electricity_to_house[i] = 1
    /\ (ScenarioB /\ solved = NoValue) =>
          \E a \in OptimalSolutions(optimiser.value.problem, variables) :
              /\ a.renewable_electricity_to_house = <<1, 1>>
              /\ a.battery_electricity_to_house = <<0, 0>>

C19_Witness ==
    /\ ScenarioB /\ SolvedOptimal
    /\ solved.value.values.battery_capacity = 0
    /\ solved.value.values.renewable_electricity_to_house = <<1, 1>>

\* the solver was run on a problem built without error from a constructor
\* call that supplied what the objective needs
SolvedBuiltProblem ==
    /\ built # NoValue /\ built.raised = "none"
    /\ ~MissingInput(optimiser.value.args)
    /\ solved # NoValue /\ solved.value.invoked

\* C20: solve() on a built problem returns normally whatever the solver's
\* status and under both objectives: a status other than Optimal is reported
\* and not raised as an error, also while the cost breakdown is computed under
\* the cost objective.
C20_SolveReturnsNormally == SolvedBuiltProblem => solved.raised = "none"

\* solve() does return normally whenever the solver has given the variables
\* values, and under the battery objective
SolveReturnsWithValues ==
    (SolvedBuiltProblem
        /\ (solved.value.values # NoValue
               \/ request.optimisation_objective = MINIMISE_BATTERY_CAP))
        => solved.raised = "none"

\* the rows written for the values the solver returned
Dumped ==
    /\ results # NoValue /\ results.raised = "none"
    /\ solved # NoValue /\ solved.value.values # NoValue

\* the columns every row has, the cost columns apart
ClaimedColumns ==
    {"renewable_electricity_to_house", "renewable_electricity_to_battery",
     "battery_electricity_to_house", "battery_state_of_charge",
     "total_electricity_to_house", "excess_electricity", "battery_capacity", "solar_size"}

\* the columns other than renewable_electricity_to_battery hold what the claim
\* says, and the cost columns are there exactly under the cost objective
DumpedColumnsWritten ==
    Dumped =>
        LET a == solved.value.values IN
        /\ Len(results.value) = request.time_slices
        /\ \A i \in 1..Len(results.value) :
              LET row == results.value[i] IN
              /\ ClaimedColumns \ {"renewable_electricity_to_battery"} \subseteq DOMAIN row
              /\ row.renewable_electricity_to_house = a.renewable_electricity_to_house[i]
              /\ row.battery_electricity_to_house = a.battery_electricity_to_house[i]
              /\ row.battery_state_of_charge = a.battery_state_of_charge[i]
              /\ row.total_electricity_to_house
                    = a.renewable_electricity_to_house[i] + a.battery_electricity_to_house[i]
              /\ row.excess_electricity
                    = row.total_electricity_to_house - request.energy_demand[i]
              /\ row.battery_capacity = a.battery_capacity
              /\ row.solar_size = SizeOfSolution(a)
              /\ (row.cost # None)
                    <=> (request.optimisation_objective = MINIMISE_BATTERY_AND_SOLAR_COST)
              /\ row.cost # None =>
                    row.cost[1].total_cost = row.cost[1].battery_cost + row.cost[1].solar_cost

\* C21: dump_results writes one row per time slice with the four per-slice
\* variables (renewable_to_house, renewable_to_battery, battery_to_house,
\* state_of_charge), total_electricity_to_house, excess_electricity, and
\* battery_capacity and solar_size on every row; the cost columns, with total =
\* battery cost + solar cost, are there exactly under the cost objective.
C21_DumpedColumns ==
    /\ DumpedColumnsWritten
    /\ Dumped =>
          \A i \in 1..Len(results.value) :
              /\ ClaimedColumns \subseteq DOMAIN results.value[i]
              /\ results.value[i].renewable_electricity_to_battery
                    = solved.value.values.renewable_electricity_to_battery[i]

-----------------------------------------------------------------------------
(* Specification of two Optimisers in one process                          *)
(* The first is optimiser/built/solved/results, the other is second; both  *)
(* reach their variables through the OptimiserVariables class.             *)

\* create_optimisation_problem calls on one Optimiser
MaxBuilds == 2

PairSizes == {<<0>>, <<1>>}

PairSlices == {1, 2}

\* the constructor calls of an Optimiser over frames that hold demand and
\* irradiance in every row
PairInputs(demand_value, irradiance_value) ==
    {[time_slices |-> n, optimisation_objective |-> objective, solar_size |-> solar_size,
      solar_capex |-> <<1>>, battery_capex |-> <<1>>,
      energy_demand |-> Profile(n, demand_value),
      solar_irradiance |-> Profile(n, irradiance_value)] :
        n \in PairSlices, objective \in KnownObjectives, solar_size \in PairSizes}

\* the create_optimisation_problem calls of either Optimiser
PairBuilds ==
    {[battery_initial_capacity |-> capacity, battery_degradation_rate |-> 0,
      solar_efficiency |-> <<100>>] : capacity \in {0}}

ConstructFirst == ConstructFrom(PairInputs(1, 4))

CreateFirstProblem == CreateProblemFrom(PairBuilds)

\* optimiser.create_optimisation_problem called again with the arguments of
\* the call before
CreateProblemAgain ==
    /\ built # NoValue /\ built.calls < MaxBuilds /\ solved = NoValue
    /\ LET b == built.value
           outcome == CreateOptimisationProblem(
                          optimiser.value, variables, b.battery_initial_capacity,
                          b.battery_degradation_rate, b.solar_efficiency[1])
       IN  /\ optimiser' = Ok(outcome.value)
           /\ log' = log \o BuildAdvisories(optimiser.value)
           /\ built' = [raised |-> outcome.raised, value |-> b, calls |-> built.calls + 1]
    /\ UNCHANGED <<variables, solved, request, results, dedupVars, fillVars, alignVars, restVars>>

\* a second Optimiser(...) while the first exists
ConstructSecond ==
    /\ optimiser # NoValue /\ optimiser.raised = "none" /\ second = NoValue
    /\ \E a \in PairInputs(0, 0) :
          LET created == CreateVariables(variables, a.time_slices, a.optimisation_objective,
                                         a.solar_size)
          IN  /\ variables' = created.value
              /\ log' = log \o CreateVariablesAdvisories(a.optimisation_objective, a.solar_size)
              /\ second' = [instance |-> IF created.raised # "none" THEN Raise(created.raised)
                                         ELSE Ok(NewOptimiser(a)),
                            built |-> NoValue, solved |-> NoValue]
    /\ UNCHANGED <<optimiser, built, solved, request, results, dedupVars, fillVars, alignVars,
                   cliVars, run>>

\* create_optimisation_problem on the second Optimiser
CreateSecondProblem ==
    /\ second # NoValue /\ second.instance.raised = "none"
    /\ second.built = NoValue /\ second.solved = NoValue
    /\ \E b \in PairBuilds :
          LET outcome == CreateOptimisationProblem(
                             second.instance.value, variables, b.battery_initial_capacity,
                             b.battery_degradation_rate, b.solar_efficiency[1])
          IN  /\ second' = [second EXCEPT !.instance = Ok(outcome.value),
                                          !.built = [raised |-> outcome.raised, value |-> b,
                                                     calls |-> 1]]
              /\ log' = log \o BuildAdvisories(second.instance.value)
    /\ UNCHANGED <<variables, optimiser, built, solved, request, results,
                   dedupVars, fillVars, alignVars, cliVars, run>>

\* solve on the second Optimiser
SolveSecond ==
    /\ second # NoValue /\ second.instance.raised = "none" /\ second.solved = NoValue
    /\ \E outcome \in SolveOutcomes(second.instance.value, variables) :
          /\ second' = [second EXCEPT !.solved = outcome]
          /\ variables' = IF outcome.value.invoked
                          THEN Assigned(second.instance.value, variables, outcome.value)
                          ELSE variables
    /\ UNCHANGED <<optimiser, built, solved, request, log, results,
                   dedupVars, fillVars, alignVars, cliVars, run>>

NextPair ==
    \/ ConstructFirst \/ CreateFirstProblem \/ CreateProblemAgain \/ Solve \/ Dump
    \/ ConstructSecond \/ CreateSecondProblem \/ SolveSecond

SpecPair == InitOpt /\ [][NextPair]_vars

\* the class attributes as the construction of the first Optimiser set them
OwnVariables == CreateVariables(NoValue, request.time_slices, request.optimisation_objective, request.solar_size).value

\* the first Optimiser as one create_optimisation_problem call leaves it when
\* no other Optimiser has been constructed
BuiltAlone == CreateOptimisationProblem(NewOptimiser(request), OwnVariables, built.value.battery_initial_capacity, built.value.battery_degradation_rate, built.value.solar_efficiency[1])

\* C22: once a second Optimiser has been constructed, the variables of the
\* first are still the ones its own construction made (its time slices, its
\* solar_size), and what the first builds is what it builds on its own
C22_OwnVariables ==
    (optimiser # NoValue /\ optimiser.raised = "none" /\ second # NoValue) =>
        /\ variables.time_slices = optimiser.value.time_slices
        /\ variables.solar_size = OwnVariables.solar_size
        /\ built # NoValue =>
              /\ built.raised = BuiltAlone.raised
              /\ optimiser.value.problem.constraints = BuiltAlone.value.problem.constraints

-----------------------------------------------------------------------------
(* Properties of the resampling                                            *)

\* the series handed to resample: the raw irradiance after duplicate
\* resolution and zero filling
ResampleInput == FillInZeroValues(BasePreProcess(solar, SOLAR_IRRADIANCE).value).value.rows

Resampled == aligned # NoValue /\ aligned.reached # "fill"

HourlyInput == \A i \in 1..Len(ResampleInput) : IsHourly(ResampleInput[i].ts)

\* the input holds every full hour of its year
FullHourlyYear ==
    TimestampSet(ResampleInput) = YearTimestamps(ResampleInput[1].ts.year, {0})

\* C23: resampling an hourly series gives every half hour from its first to
\* its last sample once and in order, every sample of the input with its own
\* value, every inserted hh:30 with the value of the full hour after it, and
\* exactly one more row, 30 minutes after the last sample and with its value;
\* a full hourly year becomes the full half-hourly year, ending 23:30 on
\* 31 December.
C23_BackwardFill ==
    (Resampled /\ HourlyInput) =>
        LET input == ResampleInput
            output == aligned.resampled
            last == input[Len(input)]
            body == SubSeq(output, 1, Len(output) - 1)
        IN  /\ output # <<>>
            /\ output[Len(output)] = Row(PlusHalfHour(last.ts), last.val)
            /\ [i \in 1..Len(body) |-> body[i].ts] = HalfHourRange(input[1].ts, last.ts)
            /\ \A i \in 1..Len(input) : \E j \in 1..Len(body) : body[j] = input[i]
            /\ \A j \in 1..Len(body) :
                  ~IsHourly(body[j].ts) =>
                      /\ j < Len(body)
                      /\ body[j + 1].ts = PlusHalfHour(body[j].ts)
                      /\ body[j].val = body[j + 1].val
            /\ FullHourlyYear =>
                  /\ TimestampSet(output) = YearTimestamps(last.ts.year, HalfHours)
                  /\ output[Len(output)].ts = TS(last.ts.year, 12, 31, DayLength - 30)

\* a full hourly year with two different values has been resampled
C23_Witness ==
    /\ Resampled /\ HourlyInput /\ FullHourlyYear
    /\ \E i \in 1..Len(ResampleInput) - 1 : ResampleInput[i].val # ResampleInput[i + 1].val

-----------------------------------------------------------------------------
(* run_model                                                               *)

\* Optimiser.plot_results: the method takes no argument besides self, so a
\* call with a keyword raises TypeError before anything is plotted; the
\* values are read through self.variables as in dump_results
PlotResults(self, cls, keywords) ==
    IF keywords # {} THEN Raise("TypeError")
    ELSE IF self.time_slices > cls.time_slices THEN Raise("KeyError")
    ELSE IF /\ self.time_slices > 0
            /\ (cls.values = NoValue
                   \/ Len(cls.values.battery_state_of_charge) < self.time_slices)
    THEN Raise("TypeError")
    ELSE Ok(TRUE)

\* the column of a frame written with to_csv(index=False) and read back
\* with read_csv: the values in row order under the index 0..n-1
ColumnOf(frame) == [i \in 1..Len(frame.rows) |-> frame.rows[i].val]

RunDay == [year |-> 2019, month |-> 1, day |-> 1]

RunTimestamps == {TS(RunDay.year, RunDay.month, RunDay.day, t) : t \in HalfHours}

\* the demand file: one or two rows of one day, in ascending order
RunDemandInputs ==
    {rows \in SeqsUpTo({Row(ts, v) : ts \in RunTimestamps, v \in DemandValues}, 2) :
        rows # <<>> /\ Ascending(rows)}

\* the irradiance file: up to two rows of the same day, in ascending order
RunSolarInputs ==
    {rows \in SeqsUpTo({Row(ts, v) : ts \in RunTimestamps, v \in SolarValues}, 2) :
        Ascending(rows)}

\* the Arguments handed to run_model; output_path is a Path
RunArguments ==
    {[optimisation_objective |-> objective, solar_array_size |-> solar_array_size,
      battery_capex |-> battery_capex, solar_capex |-> solar_capex,
      initial_battery_capacity |-> 0, battery_degradation_rate |-> 0,
      output_path |-> <<"output_path">>] :
        objective \in KnownObjectives, solar_array_size \in {None, <<1>>},
        battery_capex \in {None, <<1>>}, solar_capex \in {None, <<1>>}}

Stage(name, raised, args) == [stage |-> name, raised |-> raised, args |-> args]

InitRun ==
    /\ \E rows \in RunDemandInputs : data = Frame(ENERGY_DEMAND, rows)
    /\ \E rows \in RunSolarInputs : solar = Frame(SOLAR_IRRADIANCE, rows)
    /\ \E a \in RunArguments : run = Stage("start", "none", a)
    /\ column = NoValue /\ once = NoValue /\ twice = NoValue /\ demand = NoValue
    /\ energy_demand_profile = NoValue /\ aligned = NoValue
    /\ variables = NoValue /\ optimiser = NoValue /\ built = NoValue /\ solved = NoValue
    /\ request = NoValue /\ log = NoValue /\ results = NoValue
    /\ second = NoValue /\ argv = NoValue /\ parsed = NoValue
    /\ IdleFill

\* InputLoader(pre_processor=PreProcessEnergyDemand()).read(path)
RunPreProcessDemand ==
    /\ run.stage = "start"
    /\ LET outcome == PreProcessEnergyDemand(data)
       IN  /\ demand' = outcome
           /\ run' = Stage("demand", outcome.raised, run.args)
    /\ UNCHANGED <<data, column, once, twice, fillVars, alignVars, optVars, second, cliVars>>

\* InputLoader(pre_processor=PreProcessSolarIrradiance(energy_demand_profile)).read(path)
RunAlignIrradiance ==
    /\ run.stage = "demand" /\ run.raised = "none"
    /\ energy_demand_profile' = demand.value
    /\ LET outcome == AlignPreProcess(demand.value, solar)
       IN  /\ aligned' = outcome
           /\ run' = Stage("irradiance", outcome.raised, run.args)
    /\ UNCHANGED <<solar, dedupVars, fillVars, optVars, second, cliVars>>

\* the frames go through the temporary directory, then Optimiser(...)
RunConstruct ==
    /\ run.stage = "irradiance" /\ run.raised = "none"
    /\ LET a == [time_slices |-> Len(demand.value.rows),
                 optimisation_objective |-> run.args.optimisation_objective,
                 solar_size |-> run.args.solar_array_size,
                 solar_capex |-> run.args.solar_capex,
                 battery_capex |-> run.args.battery_capex,
                 energy_demand |-> ColumnOf(demand.value),
                 solar_irradiance |-> ColumnOf(aligned.value)]
           created == CreateVariables(variables, a.time_slices, a.optimisation_objective,
                                      a.solar_size)
       IN  /\ request' = a
           /\ variables' = created.value
           /\ log' = CreateVariablesAdvisories(a.optimisation_objective, a.solar_size)
           /\ optimiser' = IF created.raised # "none" THEN Raise(created.raised)
                           ELSE Ok(NewOptimiser(a))
           /\ run' = Stage("construct", created.raised, run.args)
    /\ UNCHANGED <<built, solved, results, dedupVars, fillVars, alignVars, second, cliVars>>

\* optimisation.create_optimisation_problem(battery_initial_capacity,
\* battery_degradation_rate): the solar efficiency is the default
RunBuild ==
    /\ run.stage = "construct" /\ run.raised = "none"
    /\ LET b == [battery_initial_capacity |-> run.args.initial_battery_capacity,
                 battery_degradation_rate |-> run.args.battery_degradation_rate,
                 solar_efficiency |-> None]
           outcome == CreateOptimisationProblem(
                          optimiser.value, variables, b.battery_initial_capacity,
                          b.battery_degradation_rate, DEFAULT_SOLAR_EFFICIENCY)
       IN  /\ optimiser' = Ok(outcome.value)
           /\ log' = log \o BuildAdvisories(optimiser.value)
           /\ built' = [raised |-> outcome.raised, value |-> b, calls |-> 1]
           /\ run' = Stage("build", outcome.raised, run.args)
    /\ UNCHANGED <<variables, solved, request, results, dedupVars, fillVars, alignVars,
                   second, cliVars>>

\* optimisation.solve()
RunSolve ==
    /\ run.stage = "build" /\ run.raised = "none"
    /\ \E outcome \in SolveOutcomes(optimiser.value, variables) :
          /\ solved' = outcome
          /\ variables' = IF outcome.value.invoked
                          THEN Assigned(optimiser.value, variables, outcome.value)
                          ELSE variables
          /\ run' = Stage("solve", outcome.raised, run.args)
    /\ UNCHANGED <<optimiser, built, request, log, results, dedupVars, fillVars, alignVars,
                   second, cliVars>>

\* optimisation.plot_results(output_dir=args.output_path), then, when
\* args.output_path is true, optimisation.dump_results(output_path=...)
RunPlotAndDump ==
    /\ run.stage = "solve" /\ run.raised = "none"
    /\ LET plotted == PlotResults(optimiser.value, variables, {"output_dir"})
           dumped == DumpResults(optimiser.value, variables, solved.value.values)
       IN  IF plotted.raised # "none" \/ run.args.output_path = None
           THEN /\ run' = Stage("plot", plotted.raised, run.args)
                /\ results' = results
           ELSE /\ run' = Stage("dump", dumped.raised, run.args)
                /\ results' = dumped
    /\ UNCHANGED <<variables, optimiser, built, solved, request, log,
                   dedupVars, fillVars, alignVars, second, cliVars>>

NextRun ==
    \/ RunPreProcessDemand \/ RunAlignIrradiance \/ RunConstruct \/ RunBuild
    \/ RunSolve \/ RunPlotAndDump

StageOrder == <<"start", "demand", "irradiance", "construct", "build", "solve", "plot", "dump">>

StageNumber(name) == CHOOSE i \in 1..Len(StageOrder) : StageOrder[i] = name

\* the ways a stage can end
StageOutcomes == {"none", "ValueError", "TypeError", "KeyError", "IndexError", "AttributeError"}

\* run_model has neither returned nor raised
Running == run.stage \notin {"plot", "dump"} /\ run.raised = "none"

\* the step from one stage of run_model to a later one: every step of NextRun
\* is one, and one is possible whenever the run is Running
RunAdvances ==
    /\ Running
    /\ \E i \in 1..Len(StageOrder), raised \in StageOutcomes :
          i > StageNumber(run.stage) /\ run' = Stage(StageOrder[i], raised, run.args)

\* run_model is sequential code: it runs on to its end or to the first
\* error, no stage waits
SpecRun == InitRun /\ [][NextRun]_vars /\ WF_run(RunAdvances)

\* the stages follow one another in the order of the claim, plot and dump
\* being one step of the model
StagesInOrder ==
    [][StageNumber(run'.stage) = StageNumber(run.stage) + 1
          \/ (run.stage = "solve" /\ run'.stage = "dump")]_run

\* C24: a run that has come through solve without an error goes on to plot
\* and, with an output path, to dump: it ends with the results written.
C24_RunWritesResults ==
    (run.stage = "solve" /\ run.raised = "none" /\ run.args.output_path # None)
        ~> (run.stage = "dump" /\ results # NoValue /\ results.raised = "none")

-----------------------------------------------------------------------------
(* Properties of solve before create_optimisation_problem                  *)

\* the outcome of a solve that was refused
Refused(outcome) ==
    /\ outcome.raised = "ValueError"
    /\ ~outcome.value.invoked /\ outcome.value.values = NoValue

SecondSolvedUnbuilt == second # NoValue /\ second.solved # NoValue /\ second.built = NoValue

\* C25: solve on an Optimiser whose create_optimisation_problem has not been
\* called raises ValueError without running the solver and changes neither
\* the Optimiser nor the variables; so it is for the first Optimiser and for
\* a second one, whatever the first has built and solved.
C25_UnbuiltSolveRefused ==
    /\ []((solved # NoValue /\ built = NoValue) => Refused(solved))
    /\ [](SecondSolvedUnbuilt => Refused(second.solved))
    /\ [][(solved = NoValue /\ solved' # NoValue /\ built = NoValue) =>
              (optimiser' = optimiser /\ variables' = variables /\ second' = second)]_vars
    /\ [][(second # NoValue /\ second.solved = NoValue /\ second'.solved # NoValue
              /\ second.built = NoValue) =>
              /\ second'.instance = second.instance /\ second'.built = second.built
              /\ optimiser' = optimiser /\ variables' = variables]_vars

\* a second Optimiser has been refused after the first has built and solved
C25_Witness ==
    /\ SecondSolvedUnbuilt /\ second.solved.raised = "ValueError"
    /\ built # NoValue /\ built.raised = "none"
    /\ solved # NoValue /\ solved.raised = "none" /\ solved.value.status = "Optimal"

-----------------------------------------------------------------------------
(* The command line of run.py                                              *)
(* A command line is the sequence of its options, each with its value, in  *)
(* the order they are written; the required paths are taken as given.      *)

\* an option as it is written: its name and the text of its value
Option(dest, text) == [dest |-> dest, text |-> text]

Digits == <<"0", "1", "2", "3", "4", "5", "6", "7", "8", "9">>

\* type=float
Float(text) == (CHOOSE i \in 1..Len(Digits) : Digits[i] = text) - 1

\* the value of an option after argparse has applied its type: a float, or
\* for the objective the string itself
Converted(option) ==
    IF option.dest = "optimisation_objective" THEN option.text ELSE <<Float(option.text)>>

\* the namespace parse_args starts from: the defaults of the options
DefaultNamespace ==
    [solar_array_size |-> None, optimisation_objective |-> MINIMISE_BATTERY_CAP,
     battery_capex |-> None, solar_capex |-> None]

\* the options whose action is ValidateOptimisationObjective
Validated == {"solar_array_size", "optimisation_objective"}

\* ValidateOptimisationObjective.__call__: the value is stored, then the
\* namespace as it is at that point of the command line is tested; the elif
\* repeats the condition of the if
ValidateOptimisationObjective(namespace, dest, values) ==
    LET stored == [namespace EXCEPT ![dest] = values]
    IN  IF stored.optimisation_objective = MINIMISE_BATTERY_CAP
        THEN IF stored.solar_array_size = None
             THEN [raised |-> "ArgumentTypeError", value |-> stored]
             ELSE Ok(stored)
        ELSE IF stored.optimisation_objective = MINIMISE_BATTERY_CAP
        THEN IF stored.battery_capex # None \/ stored.solar_capex # None
             THEN [raised |-> "ArgumentTypeError", value |-> stored]
             ELSE Ok(stored)
        ELSE Ok(stored)

\* the action of an option: the validation, or argparse's store
TakeOption(namespace, option) ==
    IF option.dest \in Validated
    THEN ValidateOptimisationObjective(namespace, option.dest, Converted(option))
    ELSE Ok([namespace EXCEPT ![option.dest] = Converted(option)])

\* arg_parser.parse_args(): the actions of the options run in the order of
\* the command line, the first error ends the parsing
RECURSIVE ParseFrom(_, _)
ParseFrom(namespace, options) ==
    IF options = <<>> THEN Ok(namespace)
    ELSE LET taken == TakeOption(namespace, options[1])
         IN  IF taken.raised # "none" THEN taken
             ELSE ParseFrom(taken.value, Tail(options))

ParseArgs(options) == ParseFrom(DefaultNamespace, options)

OptionNames == {"solar_array_size", "optimisation_objective", "battery_capex", "solar_capex"}

\* the orders in which options can be written: every option at most once
OptionOrders ==
    {order \in UNION {[1..k -> OptionNames] : k \in 0..Cardinality(OptionNames)} :
        \A i, j \in 1..Len(order) : order[i] = order[j] => i = j}

\* the command lines: the options of an order, the objective with one of the
\* choices and the others with an amount
CommandLines ==
    {[i \in 1..Len(order) |->
         Option(order[i], IF order[i] = "optimisation_objective" THEN objective
                          ELSE Digits[amount + 1])] :
        order \in OptionOrders, objective \in KnownObjectives, amount \in 0..MaxVal}

InitCli ==
    /\ argv \in CommandLines
    /\ parsed = NoValue
    /\ second = NoValue /\ run = NoValue
    /\ IdleDedup /\ IdleFill /\ IdleAlign /\ IdleOpt

\* args = arg_parser.parse_args()
Parse ==
    /\ parsed = NoValue
    /\ parsed' = ParseArgs(argv)
    /\ UNCHANGED <<argv, second, run, dedupVars, fillVars, alignVars, optVars>>

NextCli == Parse

SpecCli == InitCli /\ [][NextCli]_vars

-----------------------------------------------------------------------------
(* Properties of the command line                                          *)

Given(options, dest) == \E i \in 1..Len(options) : options[i].dest = dest

\* the objective the run will use: the one on the command line or the default
ObjectiveOf(options) ==
    IF Given(options, "optimisation_objective")
    THEN (CHOOSE o \in {options[i] : i \in 1..Len(options)} :
              o.dest = "optimisation_objective").text
    ELSE DefaultNamespace.optimisation_objective

\* the command lines the validation is to refuse
Incomplete(options) ==
    \/ ObjectiveOf(options) = MINIMISE_BATTERY_CAP /\ ~Given(options, "solar_array_size")
    \/ /\ ObjectiveOf(options) = MINIMISE_BATTERY_AND_SOLAR_COST
       /\ (~Given(options, "battery_capex") \/ ~Given(options, "solar_capex"))

\* the same options in another order
Reordered(options) ==
    {[i \in 1..Len(options) |-> options[p[i]]] :
        p \in {q \in [1..Len(options) -> 1..Len(options)] :
                  \A i, j \in 1..Len(options) : q[i] = q[j] => i = j}}

\* C26: a command line with the battery objective and no solar array size,
\* or with the cost objective and a capex missing, is refused, and whether a
\* command line is refused does not depend on the order of its options.
C26_ValidationRejects ==
    parsed # NoValue =>
        /\ Incomplete(argv) => parsed.raised # "none"
        /\ \A other \in Reordered(argv) : ParseArgs(other).raised = parsed.raised

-----------------------------------------------------------------------------
(* Properties of the discharge                                             *)

\* the sum of the first k values of a per-slice variable
SumUpTo(values, k) == SumSeq(SubSeq(values, 1, k))

\* C27: in every feasible solution of the built problem the discharge of the
\* first slice is at most the initial capacity and, up to every slice, the
\* discharge so far is at most the initial capacity plus the charge so far;
\* a problem of one slice with demand, no generation and an empty battery has
\* no feasible solution.
C27_DischargeBacked ==
    JustBuilt =>
        LET feasible == FeasibleSolutions(optimiser.value.problem, variables)
            initial == built.value.battery_initial_capacity
            n == request.time_slices
        IN  /\ \A a \in feasible :
                  /\ n > 0 => a.battery_electricity_to_house[1] <= initial
                  /\ \A k \in 1..n :
                        SumUpTo(a.battery_electricity_to_house, k)
                            <= initial + SumUpTo(a.renewable_electricity_to_battery, k)
            /\ (n = 1 /\ request.energy_demand[1] > 0 /\ request.solar_irradiance[1] = 0
                   /\ initial = 0) => feasible = {}

-----------------------------------------------------------------------------
(* Properties of repeated builds                                           *)

\* what one create_optimisation_problem call with the arguments of the last
\* one leaves of an Optimiser that has not built before, over the variables
\* the last call found
BuiltOnce == CreateOptimisationProblem(NewOptimiser(request), optimiser.value.problem.variables, built.value.battery_initial_capacity, built.value.battery_degradation_rate, built.value.solar_efficiency[1])

Rebuilt == built # NoValue /\ built.calls >= 2 /\ optimiser.value.problem # NoValue

\* C28: after two or more create_optimisation_problem calls with the same
\* arguments the problem has the objective and the constraints one call
\* leaves, and when the call returned exactly four constraints per time
\* slice.
C28_BuildRepeatable ==
    Rebuilt =>
        /\ built.raised = BuiltOnce.raised
        /\ optimiser.value.problem.objective = BuiltOnce.value.problem.objective
        /\ optimiser.value.problem.constraints = BuiltOnce.value.problem.constraints
        /\ built.raised = "none" =>
              /\ Len(optimiser.value.problem.constraints) = 4 * optimiser.value.time_slices
              /\ \A t \in 0..(optimiser.value.time_slices - 1) :
                    Cardinality(ConstraintsAt(optimiser.value.problem, t)) = 4

\* a problem of two slices has been built twice
C28_Witness ==
    /\ Rebuilt /\ built.raised = "none"
    /\ optimiser.value.time_slices = 2
    /\ Len(optimiser.value.problem.constraints) = 8

-----------------------------------------------------------------------------
(* Properties of the propagation of zero filling                           *)

\* the day k days after date
RECURSIVE DaysAfter(_, _)
DaysAfter(date, k) == IF k = 0 THEN date ELSE NextDate(DaysAfter(date, k - 1))

\* the positions of the samples at the time of day of row i on the day k
\* days after it
SlotAfter(rows, i, k) ==
    {j \in 1..Len(rows) :
        /\ DateOf(rows[j].ts) = DaysAfter(DateOf(rows[i].ts), k)
        /\ rows[j].ts.minute = rows[i].ts.minute}

\* a non-zero sample i is followed by zero samples at its time of day on
\* each of the next n days
ZeroRun(rows, i, n) ==
    /\ rows[i].val # 0
    /\ \A k \in 1..n : \E j \in SlotAfter(rows, i, k) : rows[j].val = 0

FilledAscending ==
    filled # NoValue /\ filled.raised = "none" /\ Ascending(irradiance.rows)

\* C29: when the call returns for an ascending series, the zero samples of
\* the days after a non-zero sample, at the same time of day and day after
\* day, all hold that sample's value, and a sample of the output is 0 only
\* when the series has no row of the previous day or the output is 0 at the
\* same time of the previous day.
C29_ForwardPropagation ==
    FilledAscending =>
        LET raw == irradiance.rows
            out == filled.value.rows
        IN  /\ \A i \in 1..Len(raw), n \in 1..Len(raw) :
                  ZeroRun(raw, i, n) =>
                      \A k \in 0..n : \A j \in SlotAfter(raw, i, k) :
                          out[j] = Row(raw[j].ts, raw[i].val)
            /\ \A i \in 1..Len(out) :
                  out[i].val = 0 =>
                      \/ RowsOfDay(raw, PrevDate(DateOf(out[i].ts))) = <<>>
                      \/ \E j \in 1..Len(out) :
                            /\ DateOf(out[j].ts) = PrevDate(DateOf(out[i].ts))
                            /\ out[j].ts.minute = out[i].ts.minute
                            /\ out[j].val = 0

\* a value has been carried over two days of zeros
C29_Witness ==
    /\ FilledAscending
    /\ \E i \in 1..Len(irradiance.rows) :
          /\ ZeroRun(irradiance.rows, i, 2)
          /\ \A j \in SlotAfter(irradiance.rows, i, 2) :
                filled.value.rows[j].val = irradiance.rows[i].val
====
